---- MODULE Spec2Model ----
(***************************************************************************)
(* Transaction propagation engine of gorm-txflow (src/txmanager.go),       *)
(* its ambient carrier helpers (src/unnamed/part_004), its post-commit     *)
(* hook container and the GORM plugin that drains it (src/unnamed/part_003)*)
(*                                                                         *)
(* The engine runs synchronously on the calling goroutine, so the engine   *)
(* specification Spec is a call stack of DoInTransaction frames.  A        *)
(* unit-of-work is caller code: it may write a row through GetDB(ctx),     *)
(* register a hook with AfterCommit, call DoInTransaction again, and       *)
(* return nil or an error.  The session collaborator (GORM over            *)
(* database/sql) is modelled by what the calls made in the source do:      *)
(*   - db.Transaction on a session bound to the pool begins a transaction, *)
(*     commits when the callback returns nil and rolls back otherwise      *)
(*     (also when the commit fails);                                       *)
(*   - db.Transaction on a session bound to a transaction takes a          *)
(*     savepoint, and rolls back to it when the callback fails; it never   *)
(*     commits;                                                            *)
(*   - db.Session(&gorm.Session{NewDB: true}) keeps the connection of the  *)
(*     session it is derived from (README, src/unnamed/part_000:226:       *)
(*     "Default GORM NewDB does not guarantee connection isolation");      *)
(*   - db.WithContext(ctx).Statement.Context is ctx.                       *)
(***************************************************************************)
EXTENDS Integers, Sequences, FiniteSets, TLC

\* ------------------------------------------------------------------ bounds
MaxCalls == 2     \* DoInTransaction calls in one run: the top-level call and those inside it
MaxRows == 2      \* rows written in one run
MaxHooks == 2     \* hooks registered in one run
MaxFaults == 1    \* failures reported by the session collaborator in one run
MaxGoroutines == 3 \* goroutines that share one hook container
MaxOptions == 3   \* options passed to one DoInTransaction / mergeOptions call
MaxSeeds == 2     \* WithDB calls on one carrier chain
MaxContainers == 2 \* hook containers and transaction handles a carrier can be derived with
MaxReentries == 2  \* calls that running hooks make on their own container

\* ------------------------------------------------------------------ values
NIL == 0          \* a nil pointer / an absent context value

PropagationRequired == "REQUIRED"
PropagationRequiresNew == "REQUIRES_NEW"
PropagationSupports == "SUPPORTS"
PropagationNotSupported == "NOT_SUPPORTED"
PropagationMandatory == "MANDATORY"
PropagationNever == "NEVER"
PropagationNested == "NESTED"

Propagations ==
  { PropagationRequired, PropagationRequiresNew, PropagationSupports,
    PropagationNotSupported, PropagationMandatory, PropagationNever,
    PropagationNested }

ErrNoDBAwareContext == "ErrNoDBAwareContext"
ErrNoTransaction == "ErrNoTransaction"
ErrTransactionPresent == "ErrTransactionPresent"

\* What a hook does when it is called: return nil, return an error, panic.
HookKinds == {"ok", "err", "panic"}

VARIABLES
  plugin,     \* TRUE iff the hooks plugin is registered on the *gorm.DB
  committed,  \* rows durably in the database
  txs,        \* database transactions: [st, log]
  hcs,        \* hook containers: [hooks, executed]
  hooks,      \* every hook ever passed to AfterCommit: [hc, kind, by]
  calls,      \* every DoInTransaction call of the run, running or returned
  stack,      \* the running calls, outermost first (indices into calls)
  rows,       \* every row ever written: [by, tx]
  invoked,    \* hook invocations in order: [hook, hc, by, ctx, open, call]
  execs,      \* returned Execute calls in order: [hc, by, took, errs]
  faults,     \* failures the session collaborator has reported so far
  now,        \* the last value read from the clock by generateSavepointName
  mu,         \* HooksContainer.mu of the shared container: its holder, or NIL
  threads,    \* the goroutines that share a container: [pc, by, taken, i, errs, swapped]
  top,        \* the carrier the caller passes to the top-level DoInTransaction
  lab         \* the call under study of the option and carrier helpers

vars ==
  << plugin, committed, txs, hcs, hooks, calls, stack, rows, invoked, execs,
     faults, now, mu, threads, top, lab >>

\* ------------------------------------------------------------------ carrier
\* The ambient carrier: the three context keys DbCtxKey, TxDBKey, TxHooksKey.
Carrier(root, tx, hc) == [root |-> root, tx |-> tx, hc |-> hc]

\* The root sessions (*gorm.DB values) a carrier can be seeded with.
Sessions == {"db", "db2"}

\* context.WithValue(context.Background(), DbCtxKey{}, db)
RootCtx == Carrier("db", NIL, NIL)
\* context.Background(), and a context seeded with a nil *gorm.DB
EmptyCtx == Carrier("none", NIL, NIL)
NilDBCtx == Carrier("nil", NIL, NIL)

\* ctxTx: the active transaction handle stored in ctx, or nil.
ctxTx(ctx) == ctx.tx

\* GetDB: the active transaction handle when present, else the root session.
\* conn is the transaction the session is bound to, NIL for the pool.
\* A DbCtxKey value that is a nil *gorm.DB (root = "nil") is found, and nil.
\* root names the root session returned ("" when the result is not one).
GetDB_RootFirst(ctx) ==
  IF ctx.root \in Sessions
  THEN [ok |-> TRUE, nil |-> FALSE, conn |-> NIL, root |-> ctx.root]
  ELSE IF ctx.tx # NIL
  THEN [ok |-> TRUE, nil |-> FALSE, conn |-> ctx.tx, root |-> ""]
  ELSE IF ctx.root = "nil"
  THEN [ok |-> TRUE, nil |-> TRUE, conn |-> NIL, root |-> ""]
  ELSE [ok |-> FALSE, nil |-> TRUE, conn |-> NIL, root |-> ""]
GetDB(ctx) ==
  IF ctx.tx # NIL
  THEN [ok |-> TRUE, nil |-> FALSE, conn |-> ctx.tx, root |-> ""]
  ELSE IF ctx.root \in Sessions
  THEN [ok |-> TRUE, nil |-> FALSE, conn |-> NIL, root |-> ctx.root]
  ELSE IF ctx.root = "nil"
  THEN [ok |-> TRUE, nil |-> TRUE, conn |-> NIL, root |-> ""]
  ELSE [ok |-> FALSE, nil |-> TRUE, conn |-> NIL, root |-> ""]

\* WithDB: the carrier itself when GetDB finds something in it, else the
\* carrier with db under DbCtxKey (db may be a nil *gorm.DB: "nil").
WithDB_Overwrites(ctx, db) == Carrier(db, ctx.tx, ctx.hc)
WithDB(ctx, db) ==
  IF GetDB(ctx).ok THEN ctx ELSE Carrier(db, ctx.tx, ctx.hc)

\* MustGetDB: the session GetDB finds, or panic(ErrNoDBAwareContext).
MustGetDB(ctx) ==
  IF GetDB(ctx).ok /\ ~GetDB(ctx).nil
  THEN [panic |-> "", conn |-> GetDB(ctx).conn, root |-> GetDB(ctx).root]
  ELSE [panic |-> ErrNoDBAwareContext, conn |-> NIL, root |-> ""]

\* GetTx: the active transaction handle only.
GetTx(ctx) ==
  IF ctx.tx # NIL THEN [ok |-> TRUE, conn |-> ctx.tx]
  ELSE [ok |-> FALSE, conn |-> NIL]

\* MustGetTx: the handle GetTx finds, or panic(ErrNoTransaction).
MustGetTx(ctx) ==
  IF GetTx(ctx).ok /\ GetTx(ctx).conn # NIL
  THEN [panic |-> "", conn |-> GetTx(ctx).conn]
  ELSE [panic |-> ErrNoTransaction, conn |-> NIL]

\* ------------------------------------------------------------------ stack
Running == stack # <<>>
Top == stack[Len(stack)]
\* The carrier the code that runs now holds: the root carrier outside every
\* call, else the carrier the innermost running call passed to its fn.
CurCtx == IF Running THEN calls[Top].ctx ELSE top
Parent == IF Running THEN Top ELSE NIL

\* One run is one top-level DoInTransaction call and the calls made inside it.
CanCall == Len(calls) < MaxCalls /\ (Running \/ calls = <<>>)
CanFail == faults < MaxFaults

Last(s) == s[Len(s)]
Range(s) == { s[i] : i \in 1..Len(s) }

\* ------------------------------------------------------------------ hooks
\* HooksContainer{}: no hooks, not executed.  tx and call are the transaction
\* the creating call runs its fn in and that call (bookkeeping, not fields).
NewHooksContainer(tx, call) ==
  [hooks |-> <<>>, executed |-> FALSE, tx |-> tx, call |-> call]

\* addHook: dropped when the container has executed, else appended.
addHook_AppendsAfterExecute(c, h) == [c EXCEPT !.hooks = Append(@, h)]
addHook(c, h) ==
  IF c.executed THEN c ELSE [c EXCEPT !.hooks = Append(@, h)]

\* Execute, the part under the lock: the list this call runs ...
ExecuteTaken(c) == IF c.executed THEN <<>> ELSE c.hooks
\* ... and the container it leaves.
ExecuteSwap(c) ==
  IF c.executed THEN c ELSE [c EXCEPT !.hooks = <<>>, !.executed = TRUE]

\* One hook run by the closure of Execute: nothing for nil, "error" for a
\* returned error, "recovered" for a panic the deferred recover() turned into
\* an error.  ("panic" would be a panic that leaves Execute.)
RunHook_NoRecover(kind) ==
  CASE kind = "ok" -> "nil"
    [] kind = "err" -> "error"
    [] kind = "panic" -> "panic"
RunHook(kind) ==
  CASE kind = "ok" -> "nil"
    [] kind = "err" -> "error"
    [] kind = "panic" -> "recovered"

\* The hooks of a taken list that are attempted: all of them, unless a panic
\* leaves Execute.
FirstEscape(taken) ==
  LET bad == { i \in 1..Len(taken) : RunHook(hooks[taken[i]].kind) = "panic" }
  IN IF bad = {} THEN Len(taken) + 1
     ELSE CHOOSE i \in bad : \A j \in bad : i <= j
Attempted(taken) ==
  SubSeq(taken, 1, IF FirstEscape(taken) > Len(taken) THEN Len(taken)
                   ELSE FirstEscape(taken))
Escapes(taken) == FirstEscape(taken) <= Len(taken)

IsFailure(h) == RunHook(hooks[h].kind) \in {"error", "recovered"}
\* errs: one entry per attempted hook that returned an error or panicked.
ExecuteErrs(taken) ==
  LET f == SelectSeq(Attempted(taken), IsFailure)
  IN [i \in 1..Len(f) |-> [hook |-> f[i], how |-> RunHook(hooks[f[i]].kind)]]

\* A whole Execute(ctx) call on container hc made by `by` during call `call`,
\* with the transactions as they are (txsNow) when the hooks run.
InvokedBy(hc, by, ctx, call, txsNow) ==
  LET a == Attempted(ExecuteTaken(hcs[hc]))
  IN [i \in 1..Len(a) |->
        [hook |-> a[i], hc |-> hc, by |-> by, ctx |-> ctx, call |-> call,
         open |-> hcs[hc].tx # NIL /\ txsNow[hcs[hc].tx].st = "open"]]
ExecRecord(hc, by) ==
  [hc |-> hc, by |-> by, took |-> ExecuteTaken(hcs[hc]),
   errs |-> ExecuteErrs(ExecuteTaken(hcs[hc])),
   panicked |-> Escapes(ExecuteTaken(hcs[hc]))]

\* ------------------------------------------------------------------ session
\* Transaction log entries: a written row, or a savepoint marker.
RowEntry(r) == [k |-> "row", v |-> r]
SpEntry(n) == [k |-> "sp", v |-> n]
LogRows(log) == { log[i].v : i \in { j \in 1..Len(log) : log[j].k = "row" } }
\* The rows a transaction would make durable if it committed now.
Pending(t) == IF t.st = "open" THEN LogRows(t.log) ELSE {}

\* tx.Begin(): a new open transaction.
NewTx == [st |-> "open", log |-> <<>>]
\* tx.RollbackTo(name): undo everything after the latest savepoint `name`.
RollbackTo_Keeps(log, name) == log
RollbackTo(log, name) ==
  LET at == { i \in 1..Len(log) : log[i] = SpEntry(name) }
  IN IF at = {} THEN log
     ELSE SubSeq(log, 1, CHOOSE i \in at : \A j \in at : j <= i)

\* ------------------------------------------------------------------ engine
\* The switch of DoInTransaction over the resolved propagation: the branch
\* taken, given whether ctx carries an active transaction.
Dispatch_SupportsBegins(p, hasTx) ==
  CASE p = PropagationRequired -> IF hasTx THEN "fn" ELSE "begin"
    [] p = PropagationRequiresNew -> "newSession"
    [] p = PropagationSupports -> IF hasTx THEN "fn" ELSE "begin"
    [] p = PropagationNotSupported -> "fn"
    [] p = PropagationMandatory -> IF hasTx THEN "fn" ELSE ErrNoTransaction
    [] p = PropagationNever -> IF hasTx THEN ErrTransactionPresent ELSE "fn"
    [] p = PropagationNested -> IF hasTx THEN "savepoint" ELSE "begin"
Dispatch_MandatoryBegins(p, hasTx) ==
  CASE p = PropagationRequired -> IF hasTx THEN "fn" ELSE "begin"
    [] p = PropagationRequiresNew -> "newSession"
    [] p = PropagationSupports -> "fn"
    [] p = PropagationNotSupported -> "fn"
    [] p = PropagationMandatory -> IF hasTx THEN "fn" ELSE "begin"
    [] p = PropagationNever -> IF hasTx THEN ErrTransactionPresent ELSE "fn"
    [] p = PropagationNested -> IF hasTx THEN "savepoint" ELSE "begin"
Dispatch_NeverJoins(p, hasTx) ==
  CASE p = PropagationRequired -> IF hasTx THEN "fn" ELSE "begin"
    [] p = PropagationRequiresNew -> "newSession"
    [] p = PropagationSupports -> "fn"
    [] p = PropagationNotSupported -> "fn"
    [] p = PropagationMandatory -> IF hasTx THEN "fn" ELSE ErrNoTransaction
    [] p = PropagationNever -> "fn"
    [] p = PropagationNested -> IF hasTx THEN "savepoint" ELSE "begin"
Dispatch_RequiredBegins(p, hasTx) ==
  CASE p = PropagationRequired -> "begin"
    [] p = PropagationRequiresNew -> "newSession"
    [] p = PropagationSupports -> "fn"
    [] p = PropagationNotSupported -> "fn"
    [] p = PropagationMandatory -> IF hasTx THEN "fn" ELSE ErrNoTransaction
    [] p = PropagationNever -> IF hasTx THEN ErrTransactionPresent ELSE "fn"
    [] p = PropagationNested -> IF hasTx THEN "savepoint" ELSE "begin"
Dispatch(p, hasTx) ==
  CASE p = PropagationRequired -> IF hasTx THEN "fn" ELSE "begin"
    [] p = PropagationRequiresNew -> "newSession"
    [] p = PropagationSupports -> "fn"
    [] p = PropagationNotSupported -> "fn"
    [] p = PropagationMandatory -> IF hasTx THEN "fn" ELSE ErrNoTransaction
    [] p = PropagationNever -> IF hasTx THEN ErrTransactionPresent ELSE "fn"
    [] p = PropagationNested -> IF hasTx THEN "savepoint" ELSE "begin"
    [] OTHER -> "ErrMultiplePropagation" \* default: return ErrMultiplePropagation

\* DoInTransaction up to the branch: resolve the session, then switch.
Branch_NoSessionCheck(p, ctx) == Dispatch(p, ctxTx(ctx) # NIL)
Branch(p, ctx) ==
  IF ~GetDB(ctx).ok \/ GetDB(ctx).nil THEN ErrNoDBAwareContext
  ELSE Dispatch(p, ctxTx(ctx) # NIL)

\* The carrier the "fn" branches pass to fn: ctx itself for REQUIRED, SUPPORTS
\* and MANDATORY, and db.WithContext(ctx).Statement.Context, which is ctx
\* again, for SUPPORTS, NOT_SUPPORTED and NEVER (with or without
\* db.Session(NewDB)).
FnCtx(p, ctx) == ctx

\* ctxWithHooks, and the ctxWithHooksAndTx that fn receives.
CtxWithHooks(base, hc) == Carrier(base.root, base.tx, hc)
CtxWithHooksAndTx(base, hc, tx) == Carrier(base.root, tx, hc)

\* The error a returned fn hands to the engine.
FnErr_Swallowed(res) == "nil"
FnErr(res) == IF res = "ok" THEN "nil" ELSE "fnErr"

\* A call whose fn is running.  did lists the session primitives the call
\* itself has attempted, in order; fnCalls counts its invocations of fn.
CallRecord(p, strat, base, ctx, hc, tx, own, sp, did) ==
  [prop |-> p, strat |-> strat, parent |-> Parent, base |-> base, ctx |-> ctx,
   hc |-> hc, tx |-> tx, own |-> own, sp |-> sp, did |-> did, fnCalls |-> 1,
   st |-> "fn", fn |-> "", commit |-> "", result |-> ""]
\* A call that returned without invoking fn.
Returned_SwallowsError(p, strat, base, hc, did, result) ==
  [CallRecord(p, strat, base, base, hc, NIL, FALSE, NIL, did)
     EXCEPT !.fnCalls = 0, !.st = "done", !.result = "nil"]
Returned(p, strat, base, hc, did, result) ==
  [CallRecord(p, strat, base, base, hc, NIL, FALSE, NIL, did)
     EXCEPT !.fnCalls = 0, !.st = "done", !.result = result]

Init ==
  /\ plugin \in BOOLEAN
  /\ committed = {}
  /\ txs = <<>>
  /\ hcs = <<>>
  /\ hooks = <<>>
  /\ calls = <<>>
  /\ stack = <<>>
  /\ rows = <<>>
  /\ invoked = <<>>
  /\ execs = <<>>
  /\ faults = 0
  /\ now = 0
  /\ mu = NIL
  /\ threads = <<>>
  /\ top \in {RootCtx, EmptyCtx, NilDBCtx}
  /\ lab = <<>>

\* DoInTransaction, MANDATORY without / NEVER with an active transaction:
\* the error is returned, fn is not invoked.
Refuse(p) ==
  /\ CanCall
  /\ Branch(p, CurCtx) \in
       {ErrNoDBAwareContext, ErrNoTransaction, ErrTransactionPresent}
  /\ calls' = Append(calls,
       Returned(p, Branch(p, CurCtx), CurCtx, NIL, <<>>, Branch(p, CurCtx)))
  /\ UNCHANGED << top, lab, mu, threads, plugin, committed, txs, hcs, hooks, stack, rows, invoked,
                  execs, faults, now >>

\* DoInTransaction, the branches that call fn with the carrier as it is.
JoinFn(p) ==
  /\ CanCall
  /\ Branch(p, CurCtx) = "fn"
  /\ calls' = Append(calls,
       CallRecord(p, "fn", CurCtx, FnCtx(p, CurCtx), NIL, NIL, FALSE, NIL,
                  <<>>))
  /\ stack' = Append(stack, Len(calls) + 1)
  /\ UNCHANGED << top, lab, mu, threads, plugin, committed, txs, hcs, hooks, rows, invoked, execs,
                  faults, now >>

\* db.Transaction on a pool-bound session, up to the call of fn: Begin.
BeginOn(p, strat, ok) ==
  LET cid == Len(calls) + 1
      hc == Len(hcs) + 1
      tx == Len(txs) + 1
  IN IF ok
     THEN /\ txs' = Append(txs, NewTx)
          /\ hcs' = Append(hcs, NewHooksContainer(tx, cid))
          /\ calls' = Append(calls,
               CallRecord(p, strat, CurCtx, CtxWithHooksAndTx(CurCtx, hc, tx),
                          hc, tx, TRUE, NIL, <<"begin">>))
          /\ stack' = Append(stack, cid)
          /\ UNCHANGED faults
     ELSE /\ CanFail
          /\ faults' = faults + 1
          /\ hcs' = Append(hcs, NewHooksContainer(NIL, cid))
          /\ calls' = Append(calls,
               Returned(p, strat, CurCtx, hc, <<"begin">>, "beginErr"))
          /\ UNCHANGED << txs, stack >>

\* beginNewTransactionWithHooks, up to the call of fn.
BeginNewTransactionWithHooks(p) ==
  /\ CanCall
  /\ Branch(p, CurCtx) = "begin"
  /\ \E ok \in BOOLEAN : BeginOn(p, "begin", ok)
  /\ UNCHANGED << top, lab, mu, threads, plugin, committed, hooks, rows, invoked, execs, now >>

\* beginNewTransactionWithHooksOnNewSession, up to the call of fn.  newDB is
\* db.Session(NewDB) of the session GetDB found: bound to the pool when ctx
\* has no active transaction, bound to the active transaction otherwise, and
\* then Transaction takes a savepoint in it instead of beginning.
BeginNewTransactionWithHooksOnNewSession(p) ==
  /\ CanCall
  /\ Branch(p, CurCtx) = "newSession"
  /\ LET cid == Len(calls) + 1
         hc == Len(hcs) + 1
         conn == GetDB(CurCtx).conn
     IN IF conn = NIL
        THEN \E ok \in BOOLEAN : BeginOn(p, "newSession", ok)
        ELSE \E ok \in BOOLEAN :
               IF ok
               THEN /\ txs' = [txs EXCEPT ![conn].log = Append(@, SpEntry(-cid))]
                    /\ hcs' = Append(hcs, NewHooksContainer(conn, cid))
                    /\ calls' = Append(calls,
                         CallRecord(p, "newSession", CurCtx,
                                    CtxWithHooksAndTx(CurCtx, hc, conn),
                                    hc, conn, FALSE, -cid, <<"savepoint">>))
                    /\ stack' = Append(stack, cid)
                    /\ UNCHANGED faults
               ELSE /\ CanFail
                    /\ faults' = faults + 1
                    /\ hcs' = Append(hcs, NewHooksContainer(NIL, cid))
                    /\ calls' = Append(calls,
                         Returned(p, "newSession", CurCtx, hc, <<"savepoint">>,
                                  "savepointErr"))
                    /\ UNCHANGED << txs, stack >>
  /\ UNCHANGED << top, lab, mu, threads, plugin, committed, hooks, rows, invoked, execs, now >>

\* generateSavepointName: "sp_" and the wall clock in nanoseconds.  Two
\* successive reads of the clock differ or not.
generateSavepointName(last) == IF last = 0 THEN {1} ELSE {last, last + 1}

\* runNestedUsingSavepoint, up to the call of fn.
RunNestedUsingSavepoint(p) ==
  /\ CanCall
  /\ Branch(p, CurCtx) = "savepoint"
  /\ LET cid == Len(calls) + 1
         tx == ctxTx(CurCtx)
     IN \E spName \in generateSavepointName(now), ok \in BOOLEAN :
          /\ now' = spName
          /\ IF ok
             THEN /\ txs' = [txs EXCEPT ![tx].log = Append(@, SpEntry(spName))]
                  /\ calls' = Append(calls,
                       CallRecord(p, "savepoint", CurCtx, CurCtx, NIL, tx,
                                  FALSE, spName, <<"savepoint">>))
                  /\ stack' = Append(stack, cid)
                  /\ UNCHANGED faults
             ELSE /\ CanFail
                  /\ faults' = faults + 1
                  /\ calls' = Append(calls,
                       Returned(p, "savepoint", CurCtx, NIL, <<"savepoint">>,
                                "savepointErr"))
                  /\ UNCHANGED << txs, stack >>
  /\ UNCHANGED << top, lab, mu, threads, plugin, committed, hcs, hooks, rows, invoked, execs >>

\* ------------------------------------------------------------------ fn
\* The plugin callback registered after the statement callbacks of Create,
\* Update, Delete, Row and Raw: when the statement succeeded and its context
\* carries a hook container, Execute it.
PluginFires(ctx) == plugin /\ ctx.hc # NIL

\* fn writes a row through GetDB(ctx) (with the plugin: and the callback runs).
Write ==
  /\ Running
  /\ Len(rows) < MaxRows
  /\ LET r == Len(rows) + 1
         conn == GetDB(CurCtx).conn
         hc == CurCtx.hc
     IN /\ rows' = Append(rows, [by |-> Top, tx |-> conn])
        /\ IF conn # NIL
           THEN /\ txs' = [txs EXCEPT ![conn].log = Append(@, RowEntry(r))]
                /\ UNCHANGED committed
           ELSE /\ committed' = committed \cup {r}
                /\ UNCHANGED txs
        /\ IF PluginFires(CurCtx)
           THEN /\ hcs' = [hcs EXCEPT ![hc] = ExecuteSwap(@)]
                /\ invoked' = invoked \o InvokedBy(hc, "plugin", CurCtx, Top, txs')
                /\ execs' = Append(execs, ExecRecord(hc, "plugin"))
           ELSE UNCHANGED << hcs, invoked, execs >>
  /\ UNCHANGED << top, lab, mu, threads, plugin, hooks, calls, stack, faults, now >>

\* fn calls AfterCommit(ctx, hook) on a carrier that has a hook container.
AfterCommit(kind) ==
  /\ Running
  /\ Len(hooks) < MaxHooks
  /\ CurCtx.hc # NIL
  /\ hooks' = Append(hooks, [hc |-> CurCtx.hc, kind |-> kind, by |-> Top])
  /\ hcs' = [hcs EXCEPT ![CurCtx.hc] = addHook(@, Len(hooks) + 1)]
  /\ UNCHANGED << top, lab, mu, threads, plugin, committed, txs, calls, stack, rows, invoked, execs,
                  faults, now >>

\* The call on top of the stack returns `result` to its caller, having
\* attempted the primitives `did` after fn returned `fn`.
Return_LeaksCarrier(c, did, commit, fn, result) ==
  LET done == [calls EXCEPT ![c].st = "done", ![c].fn = fn,
                            ![c].did = @ \o did,
                            ![c].commit = commit, ![c].result = result]
  IN /\ calls' = IF calls[c].parent = NIL THEN done
                 ELSE [done EXCEPT ![calls[c].parent].ctx = calls[c].ctx]
     /\ stack' = SubSeq(stack, 1, Len(stack) - 1)
Return(c, did, commit, fn, result) ==
  /\ calls' = [calls EXCEPT ![c].st = "done", ![c].fn = fn,
                            ![c].did = @ \o did,
                            ![c].commit = commit, ![c].result = result]
  /\ stack' = SubSeq(stack, 1, Len(stack) - 1)

\* hc.Execute(ctxWithHooks) by the engine once Transaction returned nil.
EngineExecute(c, txsNow) ==
  LET hc == calls[c].hc
      ctx == CtxWithHooks(calls[c].base, hc)
  IN /\ hcs' = [hcs EXCEPT ![hc] = ExecuteSwap(@)]
     /\ invoked' = invoked \o InvokedBy(hc, "engine", ctx, c, txsNow)
     /\ execs' = Append(execs, ExecRecord(hc, "engine"))
\* What the call returns after Execute: err (nil), unless a panic left it.
AfterExecute_ReturnsHookErrors(c) ==
  IF ExecuteErrs(ExecuteTaken(hcs[calls[c].hc])) # <<>> THEN "hookErr"
  ELSE "nil"
AfterExecute(c) ==
  IF Escapes(ExecuteTaken(hcs[calls[c].hc])) THEN "panic" ELSE "nil"

\* fn returns in a call that passed the carrier on: its result is returned.
ReturnJoined(res) ==
  /\ Running
  /\ calls[Top].strat = "fn"
  /\ Return(Top, <<>>, "", res, FnErr(res))
  /\ UNCHANGED << top, lab, mu, threads, plugin, committed, txs, hcs, hooks, rows, invoked, execs,
                  faults, now >>

\* fn returns in a call that began a transaction: Transaction rolls back on
\* an error, else commits, and rolls back when the commit fails; the engine
\* runs the hooks when Transaction returned nil.
ReturnBegun(res) ==
  /\ Running
  /\ calls[Top].strat \in {"begin", "newSession"}
  /\ calls[Top].own
  /\ LET c == Top
         tx == calls[c].tx
     IN IF res = "err"
        THEN /\ txs' = [txs EXCEPT ![tx].st = "rolledback"]
             /\ Return(c, <<"rollback">>, "", res, FnErr(res))
             /\ UNCHANGED << committed, hcs, invoked, execs, faults >>
        ELSE \E ok \in BOOLEAN :
               IF ok
               THEN /\ txs' = [txs EXCEPT ![tx].st = "committed"]
                    /\ committed' = committed \cup LogRows(txs[tx].log)
                    /\ EngineExecute(c, txs')
                    /\ Return(c, <<"commit">>, "ok", res, AfterExecute(c))
                    /\ UNCHANGED faults
               ELSE /\ CanFail
                    /\ faults' = faults + 1
                    /\ txs' = [txs EXCEPT ![tx].st = "rolledback"]
                    /\ Return(c, <<"commit", "rollback">>, "fail", res,
                              "commitErr")
                    /\ UNCHANGED << committed, hcs, invoked, execs >>
  /\ UNCHANGED << top, lab, mu, threads, plugin, hooks, rows, now >>

\* fn returns in a REQUIRES_NEW call made inside a transaction: Transaction
\* rolls back to its savepoint on an error and does nothing else; the engine
\* runs the hooks when Transaction returned nil.
ReturnNewSessionInTx(res) ==
  /\ Running
  /\ calls[Top].strat = "newSession"
  /\ ~calls[Top].own
  /\ LET c == Top
         tx == calls[c].tx
     IN IF res = "err"
        THEN /\ txs' = [txs EXCEPT ![tx].log = RollbackTo(@, calls[c].sp)]
             /\ Return(c, <<"rollbackTo">>, "", res, FnErr(res))
             /\ UNCHANGED << hcs, invoked, execs >>
        ELSE /\ EngineExecute(c, txs)
             /\ Return(c, <<>>, "", res, AfterExecute(c))
             /\ UNCHANGED txs
  /\ UNCHANGED << top, lab, mu, threads, plugin, committed, hooks, rows, faults, now >>

\* fn returns in runNestedUsingSavepoint: on an error roll back to the
\* savepoint and return the error (or the wrapped pair when the rollback
\* fails); on success nothing.
ReturnNested(res) ==
  /\ Running
  /\ calls[Top].strat = "savepoint"
  /\ LET c == Top
         tx == calls[c].tx
     IN IF res = "err"
        THEN \E ok \in BOOLEAN :
               IF ok
               THEN /\ txs' = [txs EXCEPT ![tx].log = RollbackTo(@, calls[c].sp)]
                    /\ Return(c, <<"rollbackTo">>, "", res, FnErr(res))
                    /\ UNCHANGED faults
               ELSE /\ CanFail
                    /\ faults' = faults + 1
                    /\ Return(c, <<"rollbackTo">>, "", res, "nestedRollbackErr")
                    /\ UNCHANGED txs
        ELSE /\ Return(c, <<>>, "", res, "nil")
             /\ UNCHANGED << txs, faults >>
  /\ UNCHANGED << top, lab, mu, threads, plugin, committed, hcs, hooks, rows, invoked, execs, now >>

Next ==
  \/ \E p \in Propagations : Refuse(p)
  \/ \E p \in Propagations : JoinFn(p)
  \/ \E p \in Propagations : BeginNewTransactionWithHooks(p)
  \/ \E p \in Propagations : BeginNewTransactionWithHooksOnNewSession(p)
  \/ \E p \in Propagations : RunNestedUsingSavepoint(p)
  \/ Write
  \/ \E kind \in HookKinds : AfterCommit(kind)
  \/ \E res \in {"ok", "err"} : ReturnJoined(res)
  \/ \E res \in {"ok", "err"} : ReturnBegun(res)
  \/ \E res \in {"ok", "err"} : ReturnNewSessionInTx(res)
  \/ \E res \in {"ok", "err"} : ReturnNested(res)

Spec == Init /\ [][Next]_vars

\* ------------------------------------------------------------------ goroutines
\* One hook container shared by goroutines: the engine after the commit, the
\* plugin callback after a statement, and callers of AfterCommit.  Execute is
\* followed statement by statement; hc.mu is a sync.Mutex.
Goroutines == 1..MaxGoroutines
Shared == 1
IdleThread ==
  [pc |-> "idle", by |-> "", taken |-> <<>>, i |-> 1, errs |-> <<>>,
   swapped |-> FALSE]

\* hc.mu.Lock() returns only when no goroutine holds the mutex.
MutexFree_NotExclusive(m) == TRUE
MutexFree(m) == m = NIL

InitHC ==
  /\ plugin = TRUE
  /\ committed = {}
  /\ txs = <<>>
  /\ hcs = << NewHooksContainer(NIL, NIL) >>
  /\ hooks = <<>>
  /\ calls = <<>>
  /\ stack = <<>>
  /\ rows = <<>>
  /\ invoked = <<>>
  /\ execs = <<>>
  /\ faults = 0
  /\ now = 0
  /\ mu = NIL
  /\ threads = [g \in Goroutines |-> IdleThread]
  /\ top = RootCtx
  /\ lab = <<>>

engineVars ==
  << plugin, committed, txs, calls, stack, rows, faults, now, top, lab >>

\* addHook, whole: Lock, test executed, append, Unlock.
HCAddHook(g, kind) ==
  /\ threads[g].pc = "idle"
  /\ Len(hooks) < MaxHooks
  /\ MutexFree(mu)
  /\ hooks' = Append(hooks, [hc |-> Shared, kind |-> kind, by |-> g])
  /\ hcs' = [hcs EXCEPT ![Shared] = addHook(@, Len(hooks) + 1)]
  /\ UNCHANGED << engineVars, invoked, execs, mu, threads >>

\* Execute: hc.mu.Lock()
HCExecuteLock(g, by) ==
  /\ threads[g].pc = "idle"
  /\ MutexFree(mu)
  /\ mu' = g
  /\ threads' = [threads EXCEPT ![g].pc = "locked", ![g].by = by]
  /\ UNCHANGED << engineVars, hcs, hooks, invoked, execs >>

\* Execute: if hc.executed { Unlock; return nil }; hooks := hc.hooks
HCExecuteCheck(g) ==
  /\ threads[g].pc = "locked"
  /\ IF hcs[Shared].executed
     THEN /\ mu' = NIL
          /\ threads' = [threads EXCEPT ![g].pc = "done"]
          /\ execs' = Append(execs,
               [hc |-> Shared, by |-> threads[g].by, took |-> <<>>,
                errs |-> <<>>, panicked |-> FALSE])
     ELSE /\ threads' = [threads EXCEPT ![g].pc = "swap",
                                        ![g].taken = ExecuteTaken(hcs[Shared])]
          /\ UNCHANGED << mu, execs >>
  /\ UNCHANGED << engineVars, hcs, hooks, invoked >>

\* Execute releases hc.mu before the loop over the hooks, not at its return:
\* the holder of the mutex once goroutine g has swapped.
UnlockBeforeHooks_Deferred(g) == g
UnlockBeforeHooks(g) == NIL

\* Execute: hc.hooks = nil; hc.executed = true; hc.mu.Unlock()
HCExecuteSwap(g) ==
  /\ threads[g].pc = "swap"
  /\ hcs' = [hcs EXCEPT ![Shared] = ExecuteSwap(@)]
  /\ mu' = UnlockBeforeHooks(g)
  /\ threads' = [threads EXCEPT ![g].pc = "run", ![g].swapped = TRUE]
  /\ UNCHANGED << engineVars, hooks, invoked, execs >>

\* Execute: one turn of the loop over the taken hooks.
HCExecuteHook(g) ==
  /\ threads[g].pc = "run"
  /\ threads[g].i <= Len(threads[g].taken)
  /\ LET h == threads[g].taken[threads[g].i]
         how == RunHook(hooks[h].kind)
     IN /\ invoked' = Append(invoked,
             [hook |-> h, hc |-> Shared, by |-> threads[g].by,
              ctx |-> CtxWithHooks(RootCtx, Shared), call |-> g,
              open |-> FALSE])
        /\ threads' =
             IF how = "panic" THEN [threads EXCEPT ![g].pc = "panicked"]
             ELSE [threads EXCEPT
                     ![g].i = @ + 1,
                     ![g].errs = IF how = "nil" THEN @
                                 ELSE Append(@, [hook |-> h, how |-> how])]
  /\ UNCHANGED << engineVars, hcs, hooks, execs, mu >>

\* Execute: return errs
HCExecuteReturn(g) ==
  /\ threads[g].pc = "run"
  /\ threads[g].i > Len(threads[g].taken)
  /\ execs' = Append(execs,
       [hc |-> Shared, by |-> threads[g].by, took |-> threads[g].taken,
        errs |-> threads[g].errs, panicked |-> FALSE])
  /\ threads' = [threads EXCEPT ![g].pc = "done"]
  /\ UNCHANGED << engineVars, hcs, hooks, invoked, mu >>

NextHC ==
  \/ \E g \in Goroutines, kind \in HookKinds : HCAddHook(g, kind)
  \/ \E g \in Goroutines, by \in {"engine", "plugin"} : HCExecuteLock(g, by)
  \/ \E g \in Goroutines : HCExecuteCheck(g)
  \/ \E g \in Goroutines : HCExecuteSwap(g)
  \/ \E g \in Goroutines : HCExecuteHook(g)
  \/ \E g \in Goroutines : HCExecuteReturn(g)

SpecHC == InitHC /\ [][NextHC]_vars

\* ------------------------------------------------------------------ options
\* Options as the caller builds them: one constructor call each.  id is the
\* object: the same option passed twice has one id, two constructor calls
\* with equal arguments have two.
defaultPropagation_Supports == PropagationSupports
defaultPropagation == PropagationRequired
PropagationDefault == "DEFAULT"
LevelDefault == "LevelDefault"
IsolationLevels == {"LevelReadCommitted", "LevelSerializable"}
ErrMultiplePropagation == "ErrMultiplePropagation"
ErrMultipleReadLevel == "ErrMultipleReadLevel"
ErrMultipleIsolation == "ErrMultipleIsolation"

\* Propagation(999): an int outside the declared constants.
PropagationUnknown == "UNKNOWN(999)"
Ctors ==
  {[kind |-> "zero", val |-> ""]}
    \cup {[kind |-> "propagation", val |-> p] :
            p \in Propagations \cup {PropagationUnknown}}
    \cup {[kind |-> "isolation", val |-> l] : l \in IsolationLevels}
    \cup {[kind |-> "readonly", val |-> f] : f \in {"true", "false"}}

\* txoption.go, TxOption{propagation *Propagation}: TxOptionWithPropagation(p)
\* stores &p, the address of its own parameter, fresh at every call (the
\* pointer is the option's id); any other option has a nil propagation.
DefaultPtr == -1
TxOptionWithPropagation(a) ==
  [propagation |-> IF a.kind = "propagation" THEN a.id ELSE NIL]
\* *ptr
Deref(args, ptr) ==
  IF ptr = DefaultPtr THEN defaultPropagation
  ELSE IF ptr \in 1..Len(args) THEN args[ptr].val
  ELSE "nil pointer"

fillOptionDefaults(opt) ==
  IF opt.propagation = NIL THEN [opt EXCEPT !.propagation = DefaultPtr]
  ELSE opt

\* One turn of the loop of mergeOptions (txoption.go): pointers are compared.
MergeStep(result, option) ==
  IF result.err # "nil" THEN result
  ELSE IF option.propagation # NIL
  THEN IF result.propagation # NIL /\ option.propagation # result.propagation
       THEN [err |-> ErrMultiplePropagation, propagation |-> NIL]
       ELSE [result EXCEPT !.propagation = option.propagation]
  ELSE result

RECURSIVE MergeLoop(_, _, _)
MergeLoop(args, i, result) ==
  IF i > Len(args) THEN result
  ELSE MergeLoop(args, i + 1, MergeStep(result, TxOptionWithPropagation(args[i])))

mergeOptions(args) ==
  LET r == MergeLoop(args, 1, [err |-> "nil", propagation |-> NIL])
  IN IF r.err # "nil" THEN r ELSE fillOptionDefaults(r)

\* part_005, TxOption{txOptions, setReadLevel, Propagation}: values.
ZeroOption ==
  [Propagation |-> PropagationDefault, Isolation |-> LevelDefault,
   ReadOnly |-> FALSE, setReadLevel |-> FALSE]
WithPropagation(t, lvl) == [t EXCEPT !.Propagation = lvl]
WithIsolationLevel(t, lvl) == [t EXCEPT !.Isolation = lvl]
WithReadOnly(t, flag) == [t EXCEPT !.ReadOnly = flag, !.setReadLevel = TRUE]
TxOptionOf(a) ==
  CASE a.kind = "zero" -> ZeroOption
    [] a.kind = "propagation" -> WithPropagation(ZeroOption, a.val)
    [] a.kind = "isolation" -> WithIsolationLevel(ZeroOption, a.val)
    [] a.kind = "readonly" -> WithReadOnly(ZeroOption, a.val = "true")
    [] a.kind = "chain" -> a.val

\* One turn of the loop of mergeOptions (part_005): the three fields in turn,
\* returning at the first conflict.
MergePropagation_LastWins(r, option) ==
  IF option.Propagation # PropagationDefault
  THEN [r EXCEPT !.opt.Propagation = option.Propagation]
  ELSE r
MergePropagation(r, option) ==
  IF option.Propagation # PropagationDefault
  THEN IF /\ r.opt.Propagation # PropagationDefault
          /\ option.Propagation # r.opt.Propagation
       THEN [r EXCEPT !.err = ErrMultiplePropagation]
       ELSE [r EXCEPT !.opt.Propagation = option.Propagation]
  ELSE r
MergeIsolation_RejectsRepeat(r, option) ==
  IF r.err # "nil" THEN r
  ELSE IF option.Isolation # LevelDefault
  THEN IF r.opt.Isolation # LevelDefault
       THEN [r EXCEPT !.err = ErrMultipleIsolation]
       ELSE [r EXCEPT !.opt.Isolation = option.Isolation]
  ELSE r
MergeIsolation(r, option) ==
  IF r.err # "nil" THEN r
  ELSE IF option.Isolation # LevelDefault
  THEN IF /\ r.opt.Isolation # LevelDefault
          /\ option.Isolation # r.opt.Isolation
       THEN [r EXCEPT !.err = ErrMultipleIsolation]
       ELSE [r EXCEPT !.opt.Isolation = option.Isolation]
  ELSE r
MergeReadOnly(r, option) ==
  IF r.err # "nil" THEN r
  ELSE IF option.setReadLevel
  THEN IF r.opt.setReadLevel /\ r.opt.ReadOnly # option.ReadOnly
       THEN [r EXCEPT !.err = ErrMultipleReadLevel]
       ELSE [r EXCEPT !.opt.ReadOnly = option.ReadOnly,
                      !.opt.setReadLevel = TRUE]
  ELSE r
MergeStep_txflow(r, option) ==
  IF r.err # "nil" THEN r
  ELSE MergeReadOnly(MergeIsolation(MergePropagation(r, option), option),
                     option)

RECURSIVE MergeLoop_txflow(_, _, _)
MergeLoop_txflow(args, i, r) ==
  IF i > Len(args) THEN r
  ELSE MergeLoop_txflow(args, i + 1, MergeStep_txflow(r, TxOptionOf(args[i])))

mergeOptions_txflow(args) ==
  MergeLoop_txflow(args, 1, [err |-> "nil", opt |-> ZeroOption])

\* DoInTransaction up to the branch, from the options: merge, resolve the
\* session, switch on *txOption.propagation.
DoInTransactionBranch_SessionFirst(args, ctx) ==
  IF ~GetDB(ctx).ok \/ GetDB(ctx).nil THEN ErrNoDBAwareContext
  ELSE IF mergeOptions(args).err # "nil" THEN mergeOptions(args).err
  ELSE Dispatch(Deref(args, mergeOptions(args).propagation), ctxTx(ctx) # NIL)
DoInTransactionBranch(args, ctx) ==
  IF mergeOptions(args).err # "nil" THEN mergeOptions(args).err
  ELSE Branch(Deref(args, mergeOptions(args).propagation), ctx)

\* The carriers the call under study is made on.
LabCarriers ==
  { RootCtx, EmptyCtx, NilDBCtx, Carrier("db", 1, 1), Carrier("db", 1, NIL) }

labelessVars ==
  << plugin, committed, txs, hcs, hooks, calls, stack, rows, invoked, execs,
     faults, now, mu, threads, top >>
InitLabFrame ==
  /\ plugin = FALSE
  /\ committed = {}
  /\ txs = <<>>
  /\ hooks = <<>>
  /\ calls = <<>>
  /\ stack = <<>>
  /\ rows = <<>>
  /\ invoked = <<>>
  /\ execs = <<>>
  /\ faults = 0
  /\ now = 0
  /\ mu = NIL
  /\ threads = <<>>
  /\ top = RootCtx

InitOpt ==
  /\ InitLabFrame
  /\ hcs = <<>>
  /\ \E ctx \in LabCarriers :
       lab = [args |-> <<>>, ctx |-> ctx, st |-> "build",
              v1 |-> [err |-> "nil", propagation |-> NIL],
              v2 |-> [err |-> "nil", opt |-> ZeroOption],
              branch |-> ""]

\* The caller builds an option and passes it.
OptPassNew(c) ==
  /\ lab.st = "build"
  /\ Len(lab.args) < MaxOptions
  /\ lab' = [lab EXCEPT !.args =
       Append(@, [kind |-> c.kind, val |-> c.val, id |-> Len(lab.args) + 1])]
  /\ UNCHANGED labelessVars

\* The caller passes an option it has already passed.
OptPassSame(i) ==
  /\ lab.st = "build"
  /\ Len(lab.args) < MaxOptions
  /\ i \in 1..Len(lab.args)
  /\ lab' = [lab EXCEPT !.args = Append(@, lab.args[i])]
  /\ UNCHANGED labelessVars

\* mergeOptions(options...) of both option packages, and DoInTransaction(ctx,
\* fn, options...) up to its branch.
OptMerge ==
  /\ lab.st = "build"
  /\ lab' = [lab EXCEPT !.st = "merged",
                        !.v1 = mergeOptions(lab.args),
                        !.v2 = mergeOptions_txflow(lab.args),
                        !.branch = DoInTransactionBranch(lab.args, lab.ctx)]
  /\ UNCHANGED labelessVars

NextOpt ==
  \/ \E c \in Ctors : OptPassNew(c)
  \/ \E i \in 1..MaxOptions : OptPassSame(i)
  \/ OptMerge

SpecOpt == InitOpt /\ [][NextOpt]_vars

\* ------------------------------------------------------------------ carriers
\* The carrier helpers called by code that holds a carrier: the carrier is
\* derived with WithDB and with the two context.WithValue calls the engine
\* makes (TxHooksKey, TxDBKey); the containers are drained by Execute.
carrierFrame ==
  << plugin, committed, txs, calls, stack, rows, faults, now, mu, threads,
     top >>
\* lab.last is the last helper call made: its input carrier and what it
\* returned; lab.first is the session of the first WithDB call that found
\* nothing in its carrier ("" before that call); lab.seeds counts WithDB calls
\* and lab.panics the AfterCommit calls that panicked.
NoCall ==
  [fn |-> "", ctx |-> EmptyCtx, arg |-> "", out |-> EmptyCtx, found |-> FALSE,
   conn |-> NIL, root |-> "", panic |-> "", hook |-> NIL, before |-> <<>>,
   after |-> <<>>]

\* AfterCommit(ctx, hook) on the containers cs: addHook on the container of
\* the carrier, or panic(ErrNoTransaction) when it has none.
AfterCommitOn_IgnoresMissing(ctx, cs, h) ==
  IF ctx.hc # NIL
  THEN [panic |-> "", hcs |-> [cs EXCEPT ![ctx.hc] = addHook(@, h)]]
  ELSE [panic |-> "", hcs |-> cs]
AfterCommitOn(ctx, cs, h) ==
  IF ctx.hc # NIL
  THEN [panic |-> "", hcs |-> [cs EXCEPT ![ctx.hc] = addHook(@, h)]]
  ELSE [panic |-> ErrNoTransaction, hcs |-> cs]

InitCtx ==
  /\ InitLabFrame
  /\ hcs = [h \in 1..MaxContainers |-> NewHooksContainer(NIL, NIL)]
  /\ lab = [ctx |-> EmptyCtx, first |-> "", seeds |-> 0, panics |-> 0,
            last |-> NoCall]

\* WithDB(ctx, db)
CtxWithDB(db) ==
  /\ lab.seeds < MaxSeeds
  /\ lab' = [lab EXCEPT
       !.ctx = WithDB(lab.ctx, db),
       !.seeds = @ + 1,
       !.first = IF @ = "" /\ ~GetDB(lab.ctx).ok THEN db ELSE @,
       !.last = [NoCall EXCEPT !.fn = "WithDB", !.ctx = lab.ctx, !.arg = db,
                               !.out = WithDB(lab.ctx, db)]]
  /\ UNCHANGED << carrierFrame, hcs, hooks, invoked, execs >>

\* context.WithValue(ctx, TxHooksKey{}, hc)
CtxDeriveHooks(h) ==
  /\ lab.ctx.hc = NIL
  /\ lab' = [lab EXCEPT !.ctx = CtxWithHooks(lab.ctx, h)]
  /\ UNCHANGED << carrierFrame, hcs, hooks, invoked, execs >>

\* context.WithValue(ctx, TxDBKey{}, tx)
CtxDeriveTx(t) ==
  /\ lab.ctx.tx = NIL
  /\ lab' = [lab EXCEPT !.ctx = CtxWithHooksAndTx(lab.ctx, lab.ctx.hc, t)]
  /\ UNCHANGED << carrierFrame, hcs, hooks, invoked, execs >>

\* GetDB / MustGetDB / GetTx / MustGetTx on the carrier.
CtxLookup(fn) ==
  /\ lab' = [lab EXCEPT !.last =
       CASE fn = "GetDB" ->
              [NoCall EXCEPT !.fn = fn, !.ctx = lab.ctx,
                             !.found = GetDB(lab.ctx).ok,
                             !.conn = GetDB(lab.ctx).conn,
                             !.root = GetDB(lab.ctx).root]
         [] fn = "MustGetDB" ->
              [NoCall EXCEPT !.fn = fn, !.ctx = lab.ctx,
                             !.found = MustGetDB(lab.ctx).panic = "",
                             !.conn = MustGetDB(lab.ctx).conn,
                             !.root = MustGetDB(lab.ctx).root,
                             !.panic = MustGetDB(lab.ctx).panic]
         [] fn = "GetTx" ->
              [NoCall EXCEPT !.fn = fn, !.ctx = lab.ctx,
                             !.found = GetTx(lab.ctx).ok,
                             !.conn = GetTx(lab.ctx).conn]
         [] fn = "MustGetTx" ->
              [NoCall EXCEPT !.fn = fn, !.ctx = lab.ctx,
                             !.found = MustGetTx(lab.ctx).panic = "",
                             !.conn = MustGetTx(lab.ctx).conn,
                             !.panic = MustGetTx(lab.ctx).panic]]
  /\ UNCHANGED << carrierFrame, hcs, hooks, invoked, execs >>

\* AfterCommit(ctx, hook)
CtxAfterCommit(kind) ==
  /\ Len(hooks) + lab.panics < MaxHooks
  /\ LET h == Len(hooks) + 1
         r == AfterCommitOn(lab.ctx, hcs, h)
     IN /\ hcs' = r.hcs
        /\ IF r.panic = ""
           THEN hooks' = Append(hooks, [hc |-> lab.ctx.hc, kind |-> kind,
                                        by |-> NIL])
           ELSE UNCHANGED hooks
        /\ lab' = [lab EXCEPT
             !.panics = IF r.panic = "" THEN @ ELSE @ + 1,
             !.last = [NoCall EXCEPT !.fn = "AfterCommit", !.ctx = lab.ctx,
                                     !.hook = IF r.panic = "" THEN h ELSE NIL,
                                     !.before = hcs, !.after = r.hcs,
                                     !.panic = r.panic]]
  /\ UNCHANGED << carrierFrame, invoked, execs >>

\* hc.Execute(ctx) on a container, whole.
CtxExecute(h) ==
  /\ ~hcs[h].executed
  /\ hcs' = [hcs EXCEPT ![h] = ExecuteSwap(@)]
  /\ invoked' = invoked \o InvokedBy(h, "engine", CtxWithHooks(RootCtx, h), NIL, txs)
  /\ execs' = Append(execs, ExecRecord(h, "engine"))
  /\ UNCHANGED << carrierFrame, hooks, lab >>

NextCtx ==
  \/ \E db \in Sessions \cup {"nil"} : CtxWithDB(db)
  \/ \E h \in 1..MaxContainers : CtxDeriveHooks(h)
  \/ \E t \in 1..MaxContainers : CtxDeriveTx(t)
  \/ \E fn \in {"GetDB", "MustGetDB", "GetTx", "MustGetTx"} : CtxLookup(fn)
  \/ \E kind \in HookKinds : CtxAfterCommit(kind)
  \/ \E h \in 1..MaxContainers : CtxExecute(h)

SpecCtx == InitCtx /\ [][NextCtx]_vars

\* ------------------------------------------------------------------ read-only
\* The manager that passes the resolved isolation and read-only settings to
\* the begin primitive (beginTransaction(session, isolationHint,
\* readOnlyHint)).  A call begins a transaction with its own read-only
\* setting or joins the active one with the carrier unchanged; the database
\* refuses a write in a read-only transaction.
\* lab.opts[c] is the read-only option call c passed ("unset", "true",
\* "false"), lab.ro[t] the read-only setting transaction t was begun with,
\* lab.writes the write statements attempted.
ReadOnlyOptions == {"unset", "true", "false"}
JoiningModes == {PropagationRequired, PropagationSupports, PropagationMandatory}
\* sql.TxOptions.ReadOnly of the resolved option: false unless set to true.
ResolvedReadOnly(opt) == opt = "true"

InitRO ==
  /\ InitLabFrame
  /\ hcs = <<>>
  /\ lab = [opts |-> <<>>, ro |-> <<>>, writes |-> <<>>]

\* DoInTransaction(ctx, fn, TxOptionWithPropagation(p), TxOptionWithReadonly(..))
\* up to the call of fn, for the modes that begin or join.
ROCall(p, opt) ==
  /\ CanCall
  /\ LET cid == Len(calls) + 1
         hc == Len(hcs) + 1
         tx == Len(txs) + 1
     IN \/ /\ Branch(p, CurCtx) = "begin"
           /\ txs' = Append(txs, NewTx)
           /\ hcs' = Append(hcs, NewHooksContainer(tx, cid))
           /\ calls' = Append(calls,
                CallRecord(p, "begin", CurCtx,
                           CtxWithHooksAndTx(CurCtx, hc, tx), hc, tx, TRUE,
                           NIL, <<"begin">>))
           /\ lab' = [lab EXCEPT !.opts = Append(@, opt),
                                 !.ro = Append(@, ResolvedReadOnly(opt))]
        \/ /\ Branch(p, CurCtx) = "fn"
           /\ ctxTx(CurCtx) # NIL
           /\ calls' = Append(calls,
                CallRecord(p, "fn", CurCtx, FnCtx(p, CurCtx), NIL, NIL, FALSE,
                           NIL, <<>>))
           /\ lab' = [lab EXCEPT !.opts = Append(@, opt)]
           /\ UNCHANGED << txs, hcs >>
  /\ stack' = Append(stack, Len(calls) + 1)
  /\ UNCHANGED << plugin, committed, hooks, rows, invoked, execs, faults, now,
                  mu, threads, top >>

\* fn writes a row through MustGetDB(ctx): refused in a read-only transaction.
ROWrite ==
  /\ Running
  /\ Len(lab.writes) < MaxRows
  /\ LET conn == MustGetDB(CurCtx).conn
         r == Len(rows) + 1
     IN /\ conn # NIL
        /\ IF lab.ro[conn]
           THEN /\ lab' = [lab EXCEPT !.writes =
                     Append(@, [by |-> Top, tx |-> conn, ok |-> FALSE])]
                /\ UNCHANGED << rows, txs >>
           ELSE /\ lab' = [lab EXCEPT !.writes =
                     Append(@, [by |-> Top, tx |-> conn, ok |-> TRUE])]
                /\ rows' = Append(rows, [by |-> Top, tx |-> conn])
                /\ txs' = [txs EXCEPT ![conn].log = Append(@, RowEntry(r))]
  /\ UNCHANGED << plugin, committed, hcs, hooks, calls, stack, invoked, execs,
                  faults, now, mu, threads, top >>

NextRO ==
  \/ \E p \in JoiningModes, opt \in ReadOnlyOptions : ROCall(p, opt)
  \/ ROWrite
  \/ \E res \in {"ok", "err"} : ReturnJoined(res)
  \/ \E res \in {"ok", "err"} : ReturnBegun(res)

SpecRO == InitRO /\ [][NextRO]_vars

\* ------------------------------------------------------------------ savepoints
\* The NESTED calls made by code that runs inside one open transaction: the
\* carrier it holds (top) is the one beginNewTransactionWithHooks passed to
\* the fn of the call that began transaction 1 with container 1.
InTxCtx == Carrier("db", 1, 1)
InitSP ==
  /\ plugin = FALSE
  /\ committed = {}
  /\ txs = << NewTx >>
  /\ hcs = << NewHooksContainer(1, NIL) >>
  /\ hooks = <<>>
  /\ calls = <<>>
  /\ stack = <<>>
  /\ rows = <<>>
  /\ invoked = <<>>
  /\ execs = <<>>
  /\ faults = 0
  /\ now = 0
  /\ mu = NIL
  /\ threads = <<>>
  /\ top = InTxCtx
  /\ lab = <<>>

NextSP ==
  \/ \E p \in Propagations : RunNestedUsingSavepoint(p)
  \/ Write
  \/ \E res \in {"ok", "err"} : ReturnNested(res)

SpecSP == InitSP /\ [][NextSP]_vars

\* ------------------------------------------------------------------ re-entrant hooks
\* The shared container again, with hooks that call AfterCommit or Execute on
\* the container that is running them.  The run starts when the transaction's
\* fn has registered its hooks (1 to MaxHooks of them).  A goroutine at pc "run" with
\* i <= Len(taken) is inside hook taken[i]: HCExecuteHook is that hook's end.
\* lab.inside is the set of hooks registered from inside a hook, lab.calls
\* the number of calls hooks have made.  The Go scheduler runs every runnable
\* goroutine (weak fairness on the steps of an Execute that has started), and
\* every hook is assumed to return.
\* The container after AfterCommit was called n times in the transaction.
RECURSIVE Registered(_, _)
Registered(c, n) == IF n = 0 THEN c ELSE addHook(Registered(c, n - 1), n)
frameRE == << plugin, committed, txs, calls, stack, rows, faults, now, top >>
InitRE ==
  /\ plugin = TRUE
  /\ committed = {}
  /\ txs = <<>>
  /\ \E n \in 1..MaxHooks : \E kinds \in [1..n -> HookKinds] :
       /\ hooks = [h \in 1..n |-> [hc |-> Shared, kind |-> kinds[h], by |-> NIL]]
       /\ hcs = << Registered(NewHooksContainer(NIL, NIL), n) >>
  /\ calls = <<>>
  /\ stack = <<>>
  /\ rows = <<>>
  /\ invoked = <<>>
  /\ execs = <<>>
  /\ faults = 0
  /\ now = 0
  /\ mu = NIL
  /\ threads = [g \in Goroutines |-> IdleThread]
  /\ top = RootCtx
  /\ lab = [inside |-> {}, calls |-> 0]

InHook(g) == threads[g].pc = "run" /\ threads[g].i <= Len(threads[g].taken)

\* The running hook calls AfterCommit(ctx, h) or hc.Execute(ctx) with the
\* carrier it was given: the call is made, and waits for hc.mu.
HCHookCalls(g, fn) ==
  /\ InHook(g)
  /\ lab.calls < MaxReentries
  /\ lab' = [lab EXCEPT !.calls = @ + 1]
  /\ threads' = [threads EXCEPT ![g].pc = fn]
  /\ UNCHANGED << frameRE, hcs, hooks, invoked, execs, mu >>

\* AfterCommit called by a hook: addHook, whole, once the mutex is free.
HCHookAfterCommit(g, kind) ==
  /\ threads[g].pc = "AfterCommit"
  /\ MutexFree(mu)
  /\ hooks' = Append(hooks, [hc |-> Shared, kind |-> kind, by |-> g])
  /\ hcs' = [hcs EXCEPT ![Shared] = addHook(@, Len(hooks) + 1)]
  /\ lab' = [lab EXCEPT !.inside = @ \cup {Len(hooks) + 1}]
  /\ threads' = [threads EXCEPT ![g].pc = "run"]
  /\ UNCHANGED << frameRE, invoked, execs, mu >>

\* Execute called by a hook: Lock, test executed, take the list, Unlock, run
\* what it took, once the mutex is free.
HCHookExecute(g) ==
  /\ threads[g].pc = "Execute"
  /\ MutexFree(mu)
  /\ hcs' = [hcs EXCEPT ![Shared] = ExecuteSwap(@)]
  /\ invoked' = invoked \o
       InvokedBy(Shared, "hook", CtxWithHooks(RootCtx, Shared), g, txs)
  /\ execs' = Append(execs, ExecRecord(Shared, "hook"))
  /\ threads' = [threads EXCEPT ![g].pc = "run"]
  /\ UNCHANGED << frameRE, hooks, mu, lab >>

NextRE ==
  \/ \E g \in Goroutines, by \in {"engine", "plugin"} : HCExecuteLock(g, by)
  \/ \E g \in Goroutines : HCExecuteCheck(g)
  \/ \E g \in Goroutines : HCExecuteSwap(g)
  \/ \E g \in Goroutines : HCExecuteHook(g)
  \/ \E g \in Goroutines : HCExecuteReturn(g)
  \/ \E g \in Goroutines, fn \in {"AfterCommit", "Execute"} : HCHookCalls(g, fn)
  \/ \E g \in Goroutines, kind \in HookKinds : HCHookAfterCommit(g, kind)
  \/ \E g \in Goroutines : HCHookExecute(g)

ExecuteSteps(g) ==
  \/ HCExecuteCheck(g) \/ HCExecuteSwap(g) \/ HCExecuteHook(g)
  \/ HCExecuteReturn(g)
  \/ \E kind \in HookKinds : HCHookAfterCommit(g, kind)
  \/ HCHookExecute(g)

SpecRE ==
  /\ InitRE /\ [][NextRE]_vars
  /\ \A g \in Goroutines : WF_vars(ExecuteSteps(g))

\* ------------------------------------------------------------------ argument order
\* mergeOptions (part_005) on options built with the chained builders, so
\* that one option can set several fields, merged in every order of the same
\* arguments.  lab.res maps each order (a permutation of the argument
\* positions) to what mergeOptions returns for it.
ChainPropagations ==
  {PropagationDefault, PropagationRequired, PropagationNever}
\* TxOption{}.WithPropagation(p).WithIsolationLevel(l)[.WithReadOnly(flag)]
TxOptionChain(p, l, ro) ==
  LET t == WithIsolationLevel(WithPropagation(ZeroOption, p), l)
  IN IF ro = "unset" THEN t ELSE WithReadOnly(t, ro = "true")
ChainedOptions ==
  { TxOptionChain(p, l, ro) :
      p \in ChainPropagations, l \in {LevelDefault} \cup IsolationLevels,
      ro \in {"unset", "true", "false"} }

Orders(n) ==
  { f \in [1..n -> 1..n] : \A i, j \in 1..n : f[i] = f[j] => i = j }
InOrder(args, f) == [i \in 1..Len(args) |-> args[f[i]]]

InitPerm ==
  /\ InitLabFrame
  /\ hcs = <<>>
  /\ lab = [args |-> <<>>, st |-> "build", res |-> <<>>]

\* The caller builds an option with the chained builders and passes it.
PermPass(o) ==
  /\ lab.st = "build"
  /\ Len(lab.args) < MaxOptions
  /\ lab' = [lab EXCEPT !.args =
       Append(@, [kind |-> "chain", val |-> o, id |-> Len(lab.args) + 1])]
  /\ UNCHANGED labelessVars

\* mergeOptions(options...), for every order of the same options.
PermMerge ==
  /\ lab.st = "build"
  /\ lab' = [lab EXCEPT
       !.st = "merged",
       !.res = [f \in Orders(Len(lab.args)) |->
                  mergeOptions_txflow(InOrder(lab.args, f))]]
  /\ UNCHANGED labelessVars

NextPerm ==
  \/ \E o \in ChainedOptions : PermPass(o)
  \/ PermMerge

SpecPerm == InitPerm /\ [][NextPerm]_vars

\* ------------------------------------------------------------------ claims
Calls == 1..Len(calls)
Done(c) == calls[c].st = "done"
\* Call c ran its fn in a transaction scope it opened itself: a transaction it
\* began, or (REQUIRES_NEW inside a transaction) the scope Transaction opened.
Began(c) == calls[c].strat \in {"begin", "newSession"} /\ calls[c].fnCalls = 1
\* Call d is call c or was made (directly or not) by the fn of call c.
RECURSIVE Under(_, _)
Under(d, c) ==
  IF d = c THEN TRUE
  ELSE IF calls[d].parent = NIL THEN FALSE
  ELSE Under(calls[d].parent, c)
\* The rows written in transaction tx by call c and the calls under it.
RowsUnder(c, tx) ==
  { r \in 1..Len(rows) : rows[r].tx = tx /\ Under(rows[r].by, c) }
RowsBy(c) == { r \in 1..Len(rows) : rows[r].by = c }
\* The hooks passed to AfterCommit for container hc, in registration order,
\* and the hooks of hc that were invoked, in invocation order.
RegisteredOn(hc) ==
  LET on(h) == hooks[h].hc = hc
  IN SelectSeq([h \in 1..Len(hooks) |-> h], on)
InvocationsOf(hc) ==
  LET of(x) == x.hc = hc
  IN SelectSeq(invoked, of)
HooksOf(s) == [i \in 1..Len(s) |-> s[i].hook]

\* C1: a transaction begun by DoInTransaction whose fn returned an error, or
\* whose commit failed, is rolled back (none of the rows written in it is in
\* the database or still pending), no hook of its container has been invoked,
\* and the call returned that error.
C1_FailedTxRolledBackNoHooks ==
  \A c \in Calls :
    (Done(c) /\ Began(c) /\ (calls[c].fn = "err" \/ calls[c].commit = "fail"))
    => /\ calls[c].own => txs[calls[c].tx].st = "rolledback"
       /\ RowsUnder(c, calls[c].tx) \cap committed = {}
       /\ RowsUnder(c, calls[c].tx) \cap Pending(txs[calls[c].tx]) = {}
       /\ InvocationsOf(calls[c].hc) = <<>>
       /\ calls[c].result = IF calls[c].fn = "err" THEN "fnErr" ELSE "commitErr"

\* C2: when the fn of a transaction begun by DoInTransaction returned nil and
\* the commit succeeded, the hooks registered on its container were invoked,
\* each once and in registration order, by the engine during that call and
\* after the commit (the transaction was no longer open).
C2_HooksRunInOrderAfterCommit ==
  \A c \in Calls :
    (Done(c) /\ Began(c) /\ calls[c].fn = "ok" /\ calls[c].commit = "ok")
    => /\ HooksOf(InvocationsOf(calls[c].hc)) = RegisteredOn(calls[c].hc)
       /\ \A i \in 1..Len(invoked) :
            invoked[i].hc = calls[c].hc
            => /\ invoked[i].by = "engine"
               /\ invoked[i].call = c
               /\ ~invoked[i].open

\* C3: on a container shared by concurrent goroutines every hook passed to
\* AfterCommit is invoked at most once; at most one Execute call takes the
\* list and sets executed (and executed is set exactly when one did); every
\* Execute call that returned without taking the list found executed set, ran
\* no hook and returned an empty list.
C3_ExecuteAtMostOnce ==
  /\ \A h \in 1..Len(hooks) :
       Cardinality({ i \in 1..Len(invoked) : invoked[i].hook = h }) <= 1
  /\ Cardinality({ g \in Goroutines : threads[g].swapped }) <= 1
  /\ hcs[Shared].executed <=> \E g \in Goroutines : threads[g].swapped
  /\ \A g \in Goroutines :
       (threads[g].pc = "done" /\ ~threads[g].swapped)
       => /\ hcs[Shared].executed
          /\ threads[g].taken = <<>> /\ threads[g].errs = <<>>
          /\ \A i \in 1..Len(invoked) : invoked[i].call # g
\* The engine took both hooks and has run the first while the plugin's
\* Execute already returned empty-handed.
C3_Witness ==
  \E a, b \in Goroutines :
    /\ threads[a].by = "engine" /\ threads[a].pc = "run"
    /\ Len(threads[a].taken) = 2 /\ threads[a].i = 2
    /\ threads[b].by = "plugin" /\ threads[b].pc = "done"
    /\ ~threads[b].swapped
    /\ Len(invoked) = 1

\* C4: every Execute call attempts every hook of the list it took, no panic
\* leaves it, and its error list has one entry per taken hook that panicked
\* or returned an error, in the order of the taken (registration) list.
C4_ExecuteIsolatesHookFailures ==
  \A i \in 1..Len(execs) :
    LET e == execs[i]
        fails(h) == hooks[h].kind \in {"err", "panic"}
    IN /\ ~e.panicked
       /\ \A k \in 1..Len(e.took) :
            \E j \in 1..Len(invoked) :
              invoked[j].hook = e.took[k] /\ invoked[j].hc = e.hc
       /\ HooksOf(e.errs) = SelectSeq(e.took, fails)
C4_Witness ==
  \E i \in 1..Len(execs) :
    /\ Len(execs[i].took) = 2
    /\ hooks[execs[i].took[1]].kind = "panic"
    /\ hooks[execs[i].took[2]].kind = "ok"
    /\ Len(execs[i].errs) = 1
    /\ \E j \in 1..Len(invoked) : invoked[j].hook = execs[i].took[2]

\* C5: a call that began a transaction, whose fn returned nil and whose
\* commit succeeded, has returned nil and the rows of the transaction are in
\* the database, whatever its hooks returned or panicked with.
C5_HookFailuresDoNotFailTx ==
  \A c \in Calls :
    (Done(c) /\ Began(c) /\ calls[c].fn = "ok" /\ calls[c].commit = "ok")
    => /\ calls[c].result = "nil"
       /\ txs[calls[c].tx].st = "committed"
       /\ LogRows(txs[calls[c].tx].log) \subseteq committed
C5_Witness ==
  \E c \in Calls, i \in 1..Len(execs) :
    /\ Done(c) /\ Began(c) /\ calls[c].commit = "ok"
    /\ calls[c].result = "nil"
    /\ RowsBy(c) # {} /\ RowsBy(c) \subseteq committed
    /\ execs[i].hc = calls[c].hc
    /\ \E k \in 1..Len(execs[i].errs) : execs[i].errs[k].how = "recovered"
    /\ \E k \in 1..Len(execs[i].errs) : execs[i].errs[k].how = "error"

\* The run of the REQUIRES_NEW test: an outer call that began a transaction
\* and wrote, an inner REQUIRES_NEW call that wrote and returned nil, then the
\* outer fn returned an error; the session collaborator reported no failure.
C6_Scenario ==
  /\ Len(calls) = 2 /\ Done(1) /\ Done(2)
  /\ calls[1].own
  /\ calls[2].prop = PropagationRequiresNew /\ calls[2].parent = 1
  /\ calls[2].fn = "ok" /\ calls[2].result = "nil"
  /\ calls[1].fn = "err"
  /\ RowsBy(1) # {} /\ RowsBy(2) # {}
  /\ faults = 0
\* C6: after that run the database holds exactly the inner call's rows.
C6_RequiresNewCommitsIndependently ==
  C6_Scenario => committed = RowsBy(2)

\* The run of the NESTED test: an outer call that began a transaction and
\* wrote, an inner NESTED call that wrote and whose fn returned an error, then
\* the outer fn returned nil; the session collaborator reported no failure.
C7_Scenario ==
  /\ Len(calls) = 2 /\ Done(1) /\ Done(2)
  /\ calls[1].own
  /\ calls[2].prop = PropagationNested /\ calls[2].parent = 1
  /\ calls[2].fn = "err"
  /\ calls[1].fn = "ok"
  /\ RowsBy(1) # {} /\ RowsBy(2) # {}
  /\ faults = 0
\* C7: in that run the NESTED call returned its fn's error, the outer call
\* returned nil, the outer transaction is committed and the database holds
\* exactly the outer call's rows.
C7_NestedFailureIsolated ==
  C7_Scenario
  => /\ calls[2].result = "fnErr"
     /\ calls[1].result = "nil"
     /\ txs[calls[1].tx].st = "committed"
     /\ committed = RowsBy(1)
C7_Witness == C7_Scenario /\ committed = RowsBy(1)

\* C8: a MANDATORY call on a carrier with a root session and no active
\* transaction has returned ErrNoTransaction without invoking fn, without
\* attempting any session primitive and without creating a hook container.
C8_MandatoryWithoutTx ==
  \A c \in Calls :
    (/\ calls[c].prop = PropagationMandatory
     /\ calls[c].base.root = "db" /\ calls[c].base.tx = NIL)
    => /\ Done(c)
       /\ calls[c].result = ErrNoTransaction
       /\ calls[c].fnCalls = 0
       /\ calls[c].did = <<>>
       /\ calls[c].tx = NIL /\ calls[c].hc = NIL
C8_Witness ==
  \E c \in Calls :
    /\ calls[c].prop = PropagationMandatory
    /\ calls[c].base.root = "db" /\ calls[c].base.tx = NIL
    /\ calls[c].result = ErrNoTransaction
    /\ txs = <<>>

\* C9: a NEVER call on a carrier with an active transaction has returned
\* ErrTransactionPresent without invoking fn and without attempting any
\* session primitive, and while its caller runs the ambient transaction is
\* still open.
C9_NeverInsideTx ==
  \A c \in Calls :
    (calls[c].prop = PropagationNever /\ calls[c].base.tx # NIL)
    => /\ Done(c)
       /\ calls[c].result = ErrTransactionPresent
       /\ calls[c].fnCalls = 0
       /\ calls[c].did = <<>>
       /\ calls[c].tx = NIL /\ calls[c].hc = NIL
       /\ calls[c].parent \in Range(stack)
          => txs[calls[c].base.tx].st = "open"
\* ... and the outer fn went on to commit it.
C9_Witness ==
  \E c \in Calls :
    /\ calls[c].prop = PropagationNever /\ calls[c].base.tx # NIL
    /\ calls[c].result = ErrTransactionPresent
    /\ txs[calls[c].base.tx].st = "committed"
    /\ \E r \in committed : rows[r].tx = calls[c].base.tx

\* C10: a REQUIRED, SUPPORTS or MANDATORY call on a carrier with an active
\* transaction invoked fn once with that same carrier, attempted no session
\* primitive and created no hook container; the rows its fn wrote are in the
\* ambient transaction, and are in the database only if that transaction
\* committed; it returned what its fn returned.
C10_JoinsActiveTx ==
  \A c \in Calls :
    (/\ calls[c].prop \in
          {PropagationRequired, PropagationSupports, PropagationMandatory}
     /\ calls[c].base.tx # NIL)
    => /\ calls[c].fnCalls = 1
       /\ calls[c].ctx = calls[c].base
       /\ calls[c].did = <<>>
       /\ calls[c].tx = NIL /\ calls[c].hc = NIL
       /\ \A r \in RowsBy(c) :
            /\ rows[r].tx = calls[c].base.tx
            /\ r \in committed => txs[calls[c].base.tx].st = "committed"
       /\ Done(c) => calls[c].result = FnErr(calls[c].fn)
C10_Witness ==
  \E c \in Calls :
    /\ calls[c].prop \in
         {PropagationRequired, PropagationSupports, PropagationMandatory}
    /\ calls[c].base.tx # NIL
    /\ Done(c) /\ calls[c].fn = "ok"
    /\ RowsBy(c) # {} /\ RowsBy(c) \cap committed = {}
    /\ txs[calls[c].base.tx].st = "rolledback"
    /\ Done(calls[c].parent) /\ calls[calls[c].parent].fn = "err"

\* C11: a NOT_SUPPORTED call on a carrier with an active transaction passes
\* its fn a carrier in which GetTx finds nothing and GetDB does not return
\* that transaction's handle, and the rows its fn writes are not in that
\* transaction.
C11_NotSupportedSuspendsTx ==
  \A c \in Calls :
    (/\ calls[c].prop = PropagationNotSupported
     /\ calls[c].base.tx # NIL
     /\ calls[c].fnCalls = 1)
    => /\ ~GetTx(calls[c].ctx).ok
       /\ GetDB(calls[c].ctx).conn # calls[c].base.tx
       /\ \A r \in RowsBy(c) : rows[r].tx # calls[c].base.tx

\* C12: a SUPPORTS, NOT_SUPPORTED or NEVER call on a carrier without an
\* active transaction began nothing and created no hook container, passed its
\* fn a carrier without an active transaction, returned what its fn returned,
\* and every row its fn wrote is in the database at once and stays there.
C12_RunsWithoutTx ==
  \A c \in Calls :
    (/\ calls[c].prop \in
          {PropagationSupports, PropagationNotSupported, PropagationNever}
     /\ calls[c].base.root = "db" /\ calls[c].base.tx = NIL)
    => /\ calls[c].fnCalls = 1
       /\ calls[c].did = <<>>
       /\ calls[c].tx = NIL /\ calls[c].hc = NIL
       /\ ~GetTx(calls[c].ctx).ok
       /\ GetDB(calls[c].ctx).ok /\ GetDB(calls[c].ctx).conn = NIL
       /\ \A r \in RowsBy(c) : rows[r].tx = NIL /\ r \in committed
       /\ Done(c) => calls[c].result = FnErr(calls[c].fn)
C12_Witness ==
  \E c \in Calls :
    /\ calls[c].prop \in
         {PropagationSupports, PropagationNotSupported, PropagationNever}
    /\ calls[c].base.tx = NIL
    /\ Done(c) /\ calls[c].fn = "err" /\ calls[c].result = "fnErr"
    /\ Cardinality(RowsBy(c)) = 2 /\ RowsBy(c) \subseteq committed
    /\ txs = <<>>

\* The values the passed options set, field by field.
ValuesSet(kind) ==
  { lab.args[i].val : i \in { j \in 1..Len(lab.args) : lab.args[j].kind = kind } }
Merged == lab.st = "merged"
BeginsTx(branch) == branch \in {"begin", "newSession", "savepoint"}

\* C13: when the passed options set one propagation value (however many
\* options set it, the same object or not) the merge succeeds and yields that
\* value; when they set two different values (and conflict in no other field)
\* the merge fails with ErrMultiplePropagation and DoInTransaction returns it
\* without beginning a transaction.
C13_MergePropagation ==
  Merged =>
    /\ \A p \in Propagations :
         ValuesSet("propagation") = {p}
         => /\ lab.v1.err = "nil"
            /\ Deref(lab.args, lab.v1.propagation) = p
    /\ Cardinality(ValuesSet("propagation")) >= 2
       => /\ lab.v1.err = ErrMultiplePropagation
          /\ lab.branch = ErrMultiplePropagation
          /\ ~BeginsTx(lab.branch)

\* The option a conflict-free list merges to: every field some option set,
\* the zero value elsewhere.
TheOne(S, zero) == IF S = {} THEN zero ELSE CHOOSE v \in S : TRUE
Combined ==
  [Propagation |-> TheOne(ValuesSet("propagation"), PropagationDefault),
   Isolation |-> TheOne(ValuesSet("isolation"), LevelDefault),
   ReadOnly |-> TheOne(ValuesSet("readonly"), "false") = "true",
   setReadLevel |-> ValuesSet("readonly") # {}]
Conflicts(kind) == Cardinality(ValuesSet(kind)) >= 2

\* C14: the merge of part_005 treats the three fields independently.  When no
\* field is set to two different values it succeeds (repeats included) and
\* the result holds every field that was set; when only the isolation levels
\* differ it fails with ErrMultipleIsolation, when only the read-only flags
\* differ with ErrMultipleReadLevel, when only the propagations differ with
\* ErrMultiplePropagation; an error names a field that was set twice
\* differently; the three errors are distinct.
C14_FieldsMergeIndependently ==
  Merged =>
    /\ (~Conflicts("propagation") /\ ~Conflicts("isolation")
          /\ ~Conflicts("readonly"))
       => lab.v2.err = "nil" /\ lab.v2.opt = Combined
    /\ (Conflicts("isolation") /\ ~Conflicts("propagation")
          /\ ~Conflicts("readonly"))
       => lab.v2.err = ErrMultipleIsolation
    /\ (Conflicts("readonly") /\ ~Conflicts("propagation")
          /\ ~Conflicts("isolation"))
       => lab.v2.err = ErrMultipleReadLevel
    /\ (Conflicts("propagation") /\ ~Conflicts("isolation")
          /\ ~Conflicts("readonly"))
       => lab.v2.err = ErrMultiplePropagation
    /\ lab.v2.err = ErrMultiplePropagation => Conflicts("propagation")
    /\ lab.v2.err = ErrMultipleIsolation => Conflicts("isolation")
    /\ lab.v2.err = ErrMultipleReadLevel => Conflicts("readonly")
    /\ Cardinality({ErrMultiplePropagation, ErrMultipleIsolation,
                    ErrMultipleReadLevel}) = 3
\* Three options that set the three fields, merged into one.
C14_Witness ==
  /\ Merged
  /\ Len(lab.args) = 3
  /\ lab.v2.err = "nil"
  /\ lab.v2.opt.Propagation = PropagationSupports
  /\ lab.v2.opt.Isolation = "LevelReadCommitted"
  /\ lab.v2.opt.setReadLevel /\ ~lab.v2.opt.ReadOnly

\* C15: when no passed option sets the propagation, DoInTransaction takes the
\* branch REQUIRED takes on the same carrier: it begins a transaction when
\* the carrier has a session and no active transaction, and calls fn with the
\* carrier as it is when it has an active transaction.
C15_DefaultsToRequired ==
  (Merged /\ ValuesSet("propagation") = {})
  => /\ lab.v1.err = "nil"
     /\ Deref(lab.args, lab.v1.propagation) = PropagationRequired
     /\ lab.branch = Branch(PropagationRequired, lab.ctx)
     /\ (lab.ctx.tx = NIL /\ lab.ctx.root = "db") => lab.branch = "begin"
     /\ lab.ctx.tx # NIL => lab.branch = "fn"
C15_Witness ==
  /\ Merged /\ lab.args = <<>>
  /\ lab.ctx.tx # NIL /\ lab.branch = "fn"

\* C16: a DoInTransaction call, of any propagation, on a carrier that has
\* neither a root session nor an active transaction has returned
\* ErrNoDBAwareContext without invoking fn, without attempting any session
\* primitive and without creating a hook container or a transaction.
C16_NoDBAwareContext ==
  \A c \in Calls :
    (calls[c].base.tx = NIL /\ calls[c].base.root # "db")
    => /\ Done(c)
       /\ calls[c].result = ErrNoDBAwareContext
       /\ calls[c].fnCalls = 0
       /\ calls[c].did = <<>>
       /\ calls[c].tx = NIL /\ calls[c].hc = NIL
       /\ txs = <<>> /\ hcs = <<>>
C16_Witness ==
  \E c \in Calls :
    /\ calls[c].base = EmptyCtx
    /\ calls[c].prop = PropagationRequiresNew
    /\ calls[c].result = ErrNoDBAwareContext
    /\ calls[c].fnCalls = 0

\* C17: a WithDB call on a carrier in which GetDB finds something returns
\* that carrier unchanged; on a carrier in which GetDB finds nothing it
\* returns the carrier with the session added; so the session of the first
\* WithDB call that found nothing stays the one under DbCtxKey, and the one
\* GetDB finds while no transaction handle is derived, whatever sessions
\* later WithDB calls pass.
C17_WithDBIdempotent ==
  /\ (lab.last.fn = "WithDB" /\ GetDB(lab.last.ctx).ok)
     => lab.last.out = lab.last.ctx
  /\ (lab.last.fn = "WithDB" /\ ~GetDB(lab.last.ctx).ok)
     => /\ lab.last.out.root = lab.last.arg
        /\ lab.last.out.tx = lab.last.ctx.tx
        /\ lab.last.out.hc = lab.last.ctx.hc
  /\ lab.first # "" => lab.ctx.root = lab.first
  /\ (lab.first \in Sessions /\ lab.ctx.tx = NIL)
     => GetDB(lab.ctx).ok /\ GetDB(lab.ctx).root = lab.first
\* WithDB(WithDB(c, "db"), "db2") on the empty carrier c, then GetDB.
C17_Witness ==
  /\ lab.seeds = 2
  /\ lab.first = "db"
  /\ lab.last.fn = "GetDB"
  /\ lab.last.found /\ lab.last.root = "db"
  /\ lab.ctx = RootCtx

C20_NestedHooksJoinOuter ==
  \A c \in Calls :
    (calls[c].strat = "savepoint" /\ calls[c].fnCalls = 1)
    => /\ calls[c].hc = NIL
       /\ \A k \in 1..Len(hcs) : hcs[k].call # c
       /\ calls[c].ctx.hc = calls[c].base.hc
       /\ \A h \in 1..Len(hooks) :
            hooks[h].by = c
            => /\ hooks[h].hc = calls[c].base.hc
               /\ hcs[hooks[h].hc].tx = calls[c].tx
               /\ \A i \in 1..Len(invoked) :
                    invoked[i].hook = h
                    => /\ Done(c)
                       /\ invoked[i].by = "engine"
                       /\ invoked[i].call = hcs[hooks[h].hc].call
                       /\ ~invoked[i].open
                       /\ txs[calls[c].tx].st = "committed"
               /\ LET o == hcs[hooks[h].hc].call
                  IN (Done(o) /\ calls[o].commit = "ok")
                     => Cardinality({ i \in 1..Len(invoked) :
                                        invoked[i].hook = h }) = 1

\* Call c ran its fn inside a transaction: one it began, one it joined
\* (REQUIRED, SUPPORTS, MANDATORY with an active transaction) or one it
\* nested in.
InTx(c) ==
  /\ calls[c].fnCalls = 1
  /\ \/ calls[c].strat \in {"begin", "newSession", "savepoint"}
     \/ /\ calls[c].strat = "fn"
        /\ calls[c].prop \in
             {PropagationRequired, PropagationSupports, PropagationMandatory}
        /\ ctxTx(calls[c].ctx) # NIL

\* C21: a call whose fn ran inside a transaction and returned an error
\* returned that error (or the wrapped pair) to its caller, and, unless the
\* rollback primitive itself failed, none of the rows written under it in
\* that transaction is in the database once the outermost call has returned,
\* whatever the callers did with the error.
C21_FailingFnRollsBack ==
  \A c \in Calls :
    (Done(c) /\ InTx(c) /\ calls[c].fn = "err")
    => /\ calls[c].result \in {"fnErr", "nestedRollbackErr"}
       /\ (stack = <<>> /\ calls[c].result = "fnErr")
          => RowsUnder(c, ctxTx(calls[c].ctx)) \cap committed = {}

C23_HooksOnlyAfterCommit ==
  \A i \in 1..Len(invoked) :
    /\ ~invoked[i].open
    /\ hcs[invoked[i].hc].tx # NIL
       => txs[hcs[invoked[i].hc].tx].st # "rolledback"

\* C24: no hook registered under a NESTED call whose fn returned an error
\* and that was rolled back to its savepoint has been invoked.
C24_FailedNestedHooksDiscarded ==
  \A c \in Calls :
    (calls[c].strat = "savepoint" /\ Done(c) /\ calls[c].fn = "err"
       /\ calls[c].result = "fnErr")
    => \A i \in 1..Len(invoked) : ~Under(hooks[invoked[i].hook].by, c)

\* C25: two NESTED calls that created a savepoint in the same transaction
\* created savepoints with different names, and a NESTED call that rolled
\* back to its savepoint left none of the rows written under it in the
\* transaction.
C25_SavepointNamesUnique ==
  /\ \A c, d \in Calls :
       (c # d /\ calls[c].strat = "savepoint" /\ calls[d].strat = "savepoint"
          /\ calls[c].fnCalls = 1 /\ calls[d].fnCalls = 1
          /\ calls[c].tx = calls[d].tx)
       => calls[c].sp # calls[d].sp
  /\ \A c \in Calls :
       (calls[c].strat = "savepoint" /\ Done(c) /\ calls[c].result = "fnErr")
       => RowsUnder(c, calls[c].tx) \cap Pending(txs[calls[c].tx]) = {}

\* C26: a REQUIRES_NEW call made with an active transaction runs its fn in a
\* transaction of its own: a transaction the call began, other than the
\* active one, not a savepoint scope of it, and closed (committed or rolled
\* back) when the call has returned while the outer one is still as it was.
C26_RequiresNewIndependentTx ==
  \A c \in Calls :
    (calls[c].strat = "newSession" /\ calls[c].fnCalls = 1
       /\ ctxTx(calls[c].base) # NIL)
    => /\ calls[c].tx # ctxTx(calls[c].base)
       /\ GetTx(calls[c].ctx).conn = calls[c].tx
       /\ calls[c].own
       /\ calls[c].sp = NIL
       /\ Done(c) => txs[calls[c].tx].st \in {"committed", "rolledback"}

\* C27: a REQUIRES_NEW call that ran its fn created a container of its own,
\* not the one of its caller's carrier, and passed it to fn; a hook on that
\* container has been invoked only by the engine during that call, after
\* the call's transaction committed, and exactly once when the call has
\* returned nil; no hook of another container was invoked during that call.
C27_RequiresNewOwnContainer ==
  \A c \in Calls :
    (calls[c].strat = "newSession" /\ calls[c].fnCalls = 1)
    => /\ calls[c].hc # NIL
       /\ calls[c].hc # calls[c].base.hc
       /\ hcs[calls[c].hc].call = c
       /\ calls[c].ctx.hc = calls[c].hc
       /\ \A i \in 1..Len(invoked) :
            invoked[i].hc = calls[c].hc
            => /\ invoked[i].by = "engine"
               /\ invoked[i].call = c
               /\ ~invoked[i].open
       /\ \A i \in 1..Len(invoked) :
            (invoked[i].call = c /\ invoked[i].by = "engine")
            => invoked[i].hc = calls[c].hc
       /\ \A h \in 1..Len(hooks) :
            hooks[h].hc = calls[c].hc
            => Cardinality({ i \in 1..Len(invoked) : invoked[i].hook = h })
                 = IF Done(c) /\ calls[c].result = "nil" THEN 1 ELSE 0

\* C28: when a call that ran its fn in a transaction scope of its own
\* (REQUIRED or NESTED without an active transaction, REQUIRES_NEW) has
\* returned, the transaction its fn ran in is committed or rolled back, by
\* one commit or one rollback; a transaction begun later than another is
\* closed before it; no transaction is open once the outermost call has
\* returned.
C28_TransactionsCloseBeforeReturn ==
  /\ \A c \in Calls :
       (Done(c) /\ Began(c))
       => /\ txs[calls[c].tx].st \in {"committed", "rolledback"}
          /\ calls[c].did \in { <<"begin", "commit">>, <<"begin", "rollback">>,
                                <<"begin", "commit", "rollback">> }
  /\ \A t1, t2 \in 1..Len(txs) :
       (t1 < t2 /\ txs[t2].st = "open") => txs[t1].st = "open"
  /\ (stack = <<>> /\ calls # <<>>)
     => \A t \in 1..Len(txs) : txs[t].st # "open"

\* C29: when an option passed to DoInTransaction sets a propagation value
\* outside the seven modes, mergeOptions returns an error, and the call
\* returns that error: it does not reach the switch, does not call fn and
\* begins nothing.
C29_UnknownPropagationRejected ==
  (Merged /\ \E i \in 1..Len(lab.args) :
               /\ lab.args[i].kind = "propagation"
               /\ lab.args[i].val \notin Propagations)
  => /\ lab.v1.err # "nil"
     /\ lab.v2.err # "nil"
     /\ lab.branch = lab.v1.err

\* C30: when the options passed to DoInTransaction set two different
\* propagation values, or their merge fails for any reason, the call returns
\* the merge's error on every carrier (with or without a root session, with
\* or without an active transaction): not ErrNoDBAwareContext, not a branch
\* that calls fn, begins a transaction or creates a savepoint; no
\* transaction and no hook container exists afterwards.
C30_ConflictsDetectedFirst ==
  Merged =>
    /\ Conflicts("propagation") => lab.v1.err = ErrMultiplePropagation
    /\ lab.v1.err # "nil"
       => /\ lab.branch = lab.v1.err
          /\ lab.branch = ErrMultiplePropagation
          /\ ~BeginsTx(lab.branch) /\ lab.branch # "fn"
          /\ txs = <<>> /\ hcs = <<>> /\ calls = <<>>
\* REQUIRED and NEVER passed on a carrier without a root session.
C30_Witness ==
  /\ Merged
  /\ lab.ctx = EmptyCtx
  /\ ValuesSet("propagation") = {PropagationRequired, PropagationNever}
  /\ lab.branch = ErrMultiplePropagation

\* C31: once a container has executed it stays executed with an empty hook
\* list: no step changes it again.  A hook registered after that is dropped
\* (the container is left as it was and the hook is never invoked), and every
\* further Execute call returns an empty error list and runs nothing.
C31_Dropped(h) ==
  /\ hcs[Shared].executed
  /\ \A g \in Goroutines :
       \A i \in 1..Len(threads[g].taken) : threads[g].taken[i] # h
C31_ExecutedIsFinal ==
  /\ [](hcs[Shared].executed => hcs[Shared].hooks = <<>>)
  /\ [][hcs[Shared].executed => hcs'[Shared] = hcs[Shared]]_vars
  /\ [](\A h \in 1..Len(hooks) :
          C31_Dropped(h) => \A i \in 1..Len(invoked) : invoked[i].hook # h)
  /\ [](\A i \in 1..Len(execs) :
          execs[i].took = <<>> /\ hcs[Shared].executed
          => /\ execs[i].errs = <<>>
             /\ ~execs[i].panicked)
  /\ [][\A g \in Goroutines :
          (hcs[Shared].executed /\ threads[g].pc = "locked"
           /\ threads'[g].pc # "locked")
          => /\ threads'[g].pc = "done"
             /\ threads'[g].taken = <<>> /\ threads'[g].errs = <<>>
             /\ invoked' = invoked]_vars
\* The container executed its one hook; a hook registered afterwards was
\* dropped, and a later Execute returned empty-handed.
C31_Witness ==
  /\ hcs[Shared].executed
  /\ \E h \in 1..Len(hooks) : C31_Dropped(h)
  /\ \E h \in 1..Len(hooks) :
       \E i \in 1..Len(invoked) : invoked[i].hook = h
  /\ \E g \in Goroutines : threads[g].pc = "done" /\ ~threads[g].swapped
  /\ \E g \in Goroutines : threads[g].pc = "done" /\ threads[g].swapped

\* C32: every call that runs its fn on a path that begins a transaction
\* (REQUIRED and NESTED without an active transaction, REQUIRES_NEW always)
\* began a transaction of its own and created a container of its own, which
\* was empty and not executed when fn was invoked (every hook on it and every
\* run of it came from that call), and invoked fn exactly once with a carrier
\* derived from its caller's: the new transaction as the active one, the new
\* container, and the caller's root session.
C32_FreshOnBegin ==
  \A c \in Calls :
    Began(c)
    => /\ calls[c].own
       /\ calls[c].tx # NIL /\ calls[c].tx # ctxTx(calls[c].base)
       /\ calls[c].did[1] = "begin"
       /\ calls[c].hc # NIL /\ calls[c].hc # calls[c].base.hc
       /\ hcs[calls[c].hc].call = c
       /\ \A d \in Calls : (d # c /\ calls[d].hc = calls[c].hc) => Under(d, c)
       /\ \A h \in 1..Len(hooks) :
            hooks[h].hc = calls[c].hc => Under(hooks[h].by, c)
       /\ \A i \in 1..Len(invoked) :
            invoked[i].hc = calls[c].hc => Under(invoked[i].call, c)
       /\ calls[c].ctx.tx = calls[c].tx
       /\ calls[c].ctx.hc = calls[c].hc
       /\ calls[c].ctx.root = calls[c].base.root
       /\ calls[c].ctx.root \in Sessions

\* C33: a failure of the session is surfaced and not retried.  A call whose
\* begin (or whose savepoint) failed did not invoke fn and returned the
\* error; a call whose commit failed returned the commit error; and no call
\* attempted begin, commit or savepoint creation more than once.
C33_Count(did, prim) == Cardinality({ i \in 1..Len(did) : did[i] = prim })
C33_FailuresSurfacedOnce ==
  \A c \in Calls :
    /\ \A prim \in {"begin", "commit", "savepoint"} :
         C33_Count(calls[c].did, prim) <= 1
    /\ (Done(c) /\ calls[c].did = <<"begin">>)
       => /\ calls[c].fnCalls = 0
          /\ calls[c].result = "beginErr"
    /\ (Done(c) /\ calls[c].did = <<"savepoint">> /\ calls[c].fnCalls = 0)
       => calls[c].result = "savepointErr"
    /\ calls[c].fnCalls = 0
       => \A r \in 1..Len(rows) : rows[r].by # c
    /\ calls[c].commit = "fail"
       => /\ calls[c].result = "commitErr"
          /\ calls[c].fnCalls = 1
          /\ calls[c].did = <<"begin", "commit", "rollback">>
\* One call's begin failed and it returned the error without running fn.
C33_Witness ==
  \E c \in Calls :
    /\ Done(c) /\ calls[c].did = <<"begin">> /\ calls[c].result = "beginErr"
    /\ calls[c].fnCalls = 0
\* One call's commit failed after its fn wrote a row and returned nil.
C33_WitnessCommit ==
  \E c \in Calls :
    /\ calls[c].commit = "fail" /\ calls[c].result = "commitErr"
    /\ RowsBy(c) # {}

\* The NESTED protocol of a call made with an active transaction, where
\* `failed` is what the call may return when fn failed and the rollback to the
\* savepoint failed too.
C34_NoEnclosingRollback(c) ==
  \A d \in Calls :
    (d # c /\ Under(c, d))
    => \A i \in 1..Len(calls[d].did) : calls[d].did[i] # "rollbackTo"
C34_State(failed) ==
  \A c \in Calls :
    calls[c].strat = "savepoint"
    => /\ calls[c].did # <<>> /\ calls[c].did[1] = "savepoint"
       /\ calls[c].fnCalls = 0
          => /\ Done(c) /\ calls[c].did = <<"savepoint">>
             /\ calls[c].result = "savepointErr"
             /\ RowsBy(c) = {}
       /\ calls[c].fnCalls = 1
          => /\ calls[c].ctx = calls[c].base
             /\ ctxTx(calls[c].ctx) = calls[c].tx /\ calls[c].tx # NIL
             /\ ~Done(c) => calls[c].did = <<"savepoint">>
       /\ (Done(c) /\ calls[c].fn = "err")
          => /\ calls[c].did = <<"savepoint", "rollbackTo">>
             /\ calls[c].result \in {"fnErr"} \cup failed
       /\ (Done(c) /\ calls[c].fn = "ok")
          => /\ calls[c].did = <<"savepoint">>
             /\ calls[c].result = "nil"
             /\ txs[calls[c].tx].st = "rolledback"
                => RowsBy(c) \cap committed = {}
             /\ (txs[calls[c].tx].st = "committed"
                 /\ C34_NoEnclosingRollback(c))
                => RowsBy(c) \subseteq committed
             /\ txs[calls[c].tx].st = "open"
                => RowsBy(c) \cap committed = {}
C34_Step(failed) ==
  \A c \in Calls :
    (calls[c].strat = "savepoint" /\ calls[c].st = "fn"
       /\ calls'[c].st = "done")
    => LET tx == calls[c].tx
       IN IF calls'[c].fn = "err"
          THEN \/ /\ txs' = [txs EXCEPT
                               ![tx].log = RollbackTo(@, calls[c].sp)]
                  /\ calls'[c].result = "fnErr"
                  /\ faults' = faults
               \/ /\ txs' = txs
                  /\ calls'[c].result \in failed
                  /\ faults' = faults + 1
          ELSE /\ txs' = txs /\ committed' = committed
               /\ calls'[c].result = "nil"

C35_CarrierOf(c) == IF c = NIL THEN top ELSE calls[c].ctx
C35_CallerCarrierUnchanged ==
  /\ [](\A d \in Calls : calls[d].base = C35_CarrierOf(calls[d].parent))
  /\ [](Running /\ ctxTx(CurCtx) # NIL => txs[ctxTx(CurCtx)].st = "open")
  /\ [][/\ top' = top
        /\ \A c \in Calls :
             /\ calls'[c].ctx = calls[c].ctx
             /\ calls'[c].base = calls[c].base
             /\ (calls[c].st = "fn" /\ calls'[c].st = "done")
                => /\ CurCtx' = C35_CarrierOf(calls[c].parent)
                   /\ CurCtx' = calls[c].base]_vars
\* A REQUIRES_NEW or NOT_SUPPORTED call made inside a transaction has
\* returned, and its caller's carrier exposes that transaction again.
C35_Witness ==
  \E d \in Calls :
    /\ Done(d) /\ calls[d].fnCalls = 1
    /\ calls[d].prop \in {PropagationRequiresNew, PropagationNotSupported}
    /\ calls[d].parent # NIL /\ Running /\ Top = calls[d].parent
    /\ GetTx(CurCtx).ok /\ txs[ctxTx(CurCtx)].st = "open"
    /\ RowsBy(d) # {}

\* C36: the engine invokes post-commit hooks with a carrier that exposes no
\* active transaction, for a top-level transaction and for a REQUIRES_NEW
\* call made inside an outer transaction alike: GetTx finds nothing in the
\* hook's carrier and GetDB returns a session bound to no transaction, so
\* what a hook writes through its carrier is in no open transaction.
C36_HooksSeeNoTransaction ==
  \A i \in 1..Len(invoked) :
    invoked[i].by = "engine"
    => /\ ~GetTx(invoked[i].ctx).ok
       /\ GetDB(invoked[i].ctx).conn = NIL
       /\ ~invoked[i].open

\* C37: when a call of Execute has returned, every hook registered on the
\* container before that call has run to its end: for the call that took the
\* list and for every concurrent call that found the container executed (the
\* list was taken, under the mutex, before such a call locked it, so every
\* taken hook was registered before the call).
C37_ExecuteReturnsAfterHooks ==
  \A g \in Goroutines :
    threads[g].pc = "done"
    => \A s \in Goroutines :
         \A k \in 1..Len(threads[s].taken) :
           \E i \in 1..Len(invoked) : invoked[i].hook = threads[s].taken[k]

\* C38: Execute does not hold hc.mu while the hooks run.  No goroutine that
\* is running hooks (or has returned) holds the mutex; a hook's call of
\* AfterCommit or Execute on its own container returns (no deadlock); an
\* Execute call that has locked the mutex returns, given that every hook
\* returns; a hook registered from inside a running hook is dropped (it is in
\* no list) and never invoked; and an Execute called by a hook takes nothing,
\* reports nothing and does not panic.
C38_Inside(g) == threads[g].pc \in {"AfterCommit", "Execute"}
C38_ReentrantHooksSafe ==
  /\ [](\A g \in Goroutines :
          threads[g].pc \in {"run", "AfterCommit", "Execute", "done"}
          => mu # g)
  /\ [](\A h \in lab.inside :
          /\ \A k \in 1..Len(hcs[Shared].hooks) : hcs[Shared].hooks[k] # h
          /\ \A g \in Goroutines :
               \A k \in 1..Len(threads[g].taken) : threads[g].taken[k] # h
          /\ \A i \in 1..Len(invoked) : invoked[i].hook # h)
  /\ [](\A i \in 1..Len(execs) :
          execs[i].by = "hook"
          => execs[i].took = <<>> /\ execs[i].errs = <<>>
             /\ ~execs[i].panicked)
  /\ \A g \in Goroutines : C38_Inside(g) ~> threads[g].pc = "run"
  /\ \A g \in Goroutines : threads[g].pc = "locked" ~> threads[g].pc = "done"
\* A hook registered another hook on its own container and a hook called
\* Execute on it; the registered hook was dropped and the Execute call that
\* ran the hooks has returned.
C38_Witness ==
  /\ lab.inside # {}
  /\ \E i \in 1..Len(execs) : execs[i].by = "hook"
  /\ \E g \in Goroutines :
       /\ threads[g].pc = "done" /\ threads[g].swapped
       /\ \E h \in lab.inside : hooks[h].by = g
  /\ hcs[Shared].hooks = <<>>

\* C39: after WithDB(c, s) with a session s that is not nil, on any carrier c
\* (one an earlier WithDB seeded with a nil session included), GetDB on the
\* result finds a session that is not nil, and DoInTransaction on the result
\* does not return ErrNoDBAwareContext, whatever the propagation.
C39_WithDBMakesCarrierUsable ==
  LET L == lab.last
  IN (L.fn = "WithDB" /\ L.arg \in Sessions)
     => /\ GetDB(L.out).ok /\ ~GetDB(L.out).nil
        /\ MustGetDB(L.out).panic = ""
        /\ \A p \in Propagations : Branch(p, L.out) # ErrNoDBAwareContext

\* The fields in which the passed options conflict: two options set the field
\* to different values.
C40_Set(o, field) ==
  CASE field = "propagation" -> o.Propagation # PropagationDefault
    [] field = "isolation" -> o.Isolation # LevelDefault
    [] field = "readonly" -> o.setReadLevel
C40_Value(o, field) ==
  CASE field = "propagation" -> o.Propagation
    [] field = "isolation" -> o.Isolation
    [] field = "readonly" -> IF o.ReadOnly THEN "true" ELSE "false"
C40_Err(field) ==
  CASE field = "propagation" -> ErrMultiplePropagation
    [] field = "isolation" -> ErrMultipleIsolation
    [] field = "readonly" -> ErrMultipleReadLevel
C40_ConflictFields ==
  { field \in {"propagation", "isolation", "readonly"} :
      \E i, j \in 1..Len(lab.args) :
        /\ C40_Set(lab.args[i].val, field) /\ C40_Set(lab.args[j].val, field)
        /\ C40_Value(lab.args[i].val, field) # C40_Value(lab.args[j].val, field) }
C40_AllOrders == Orders(Len(lab.args))
\* The order the options were passed in: every order is compared with it.
C40_AsPassed == [i \in 1..Len(lab.args) |-> i]

\* C40 (as claimed): the outcome of mergeOptions does not depend on the order
\* of its arguments: over all orders of the same options it fails in all or
\* succeeds in all, a success resolves the same propagation, isolation and
\* read-only values in every order, and a failure returns the same conflict
\* error in every order.
C40_MergeOrderIndependent ==
  Merged =>
    LET g == C40_AsPassed
    IN \A f \in C40_AllOrders :
         /\ lab.res[f].err = lab.res[g].err
         /\ lab.res[f].err = "nil" => lab.res[f].opt = lab.res[g].opt

\* C40 (amended): over all orders of the same options the merge fails in all
\* (exactly when the options conflict in some field) or succeeds in all with
\* the same resolved values; a failure returns the conflict error of a field
\* in which the options conflict: the same in every order when they conflict
\* in one field only, and possibly another one in another order otherwise.
C40_MergeOrderIndependentButErrorKind ==
  Merged =>
    LET g == C40_AsPassed
        conflicts == C40_ConflictFields
    IN \A f \in C40_AllOrders :
         /\ lab.res[f].err = "nil" <=> lab.res[g].err = "nil"
         /\ lab.res[f].err = "nil" <=> conflicts = {}
         /\ lab.res[f].err = "nil" => lab.res[f].opt = lab.res[g].opt
         /\ lab.res[f].err # "nil"
            => \E field \in conflicts : lab.res[f].err = C40_Err(field)
         /\ Cardinality(conflicts) <= 1
            => lab.res[f].err = lab.res[g].err
\* Options that conflict in propagation and in isolation: one order fails with
\* ErrMultiplePropagation, another with ErrMultipleIsolation.
C40_Witness ==
  /\ Merged
  /\ C40_ConflictFields = {"propagation", "isolation"}
  /\ \E f, g \in C40_AllOrders :
       /\ lab.res[f].err = ErrMultiplePropagation
       /\ lab.res[g].err = ErrMultipleIsolation
====
